---- MODULE Spec2Model ----
(***************************************************************************)
(* Model of the ingest orchestrator of evidance-grade-contacts:            *)
(* src/pipeline/ingest.py (DomainTracker, HeadlessBudget, IngestPipeline), *)
(* src/pipeline/escalation.py (decide_escalation) and the outcomes of the  *)
(* fetchers and the contact extractor that ingest() branches on.           *)
(***************************************************************************)
EXTENDS Integers, Sequences, FiniteSets, TLC

\* ------------------------------------------------------------------ bounds
\* Number of static fetches one run records (the counters are unbounded in the code).
MaxFetches == 5

\* Number of ingest() calls each thread makes in the concurrent specification.
MaxThreadCalls == 1

\* ------------------------------------------------------- optional values
\* Python's None / a present value, as a sequence of length 0 / 1.
None == << >>

Some(v) == << v >>

\* ------------------------------------------------------------ input sets
Domains == {"a.com", "b.com"}

\* A URL string is modelled by what urlparse makes of it: netloc, path, and
\* whether urlparse accepts it ("http://[::1/team" raises ValueError).
\* The path "/team" matches the target regex, "/about" does not.
Urls ==
    { [netloc |-> "a.com", path |-> "/team", parses |-> TRUE],
      [netloc |-> "a.com", path |-> "/about", parses |-> TRUE],
      [netloc |-> "b.com", path |-> "/team", parses |-> TRUE],
      [netloc |-> "a.com", path |-> "/team", parses |-> FALSE] }

\* ---------------------------------------------------- escalation.py
ANTI_BOT_MARKERS == << "Just a moment\\s*\\.\\.\\.",
                       "Enable JavaScript and cookies to continue",
                       "__cf_chl_" >>

JS_MARKERS == << "data-cfemail",
                 "cf_email",
                 "javascript:.*mailto",
                 "data-email\\s*=",
                 "data-phone\\s*=",
                 "data-reactroot",
                 "ng-app",
                 "show\\s*(e-?mail|email)",
                 "reveal\\s*(e-?mail|email)",
                 "display\\s*(e-?mail|email)",
                 "pokazat\\s*(e-?mail|email|pocht\\w+)",
                 "otkryt\\s*(e-?mail|email|pocht\\w+)" >>

\* The words _count_selector_hits looks for in the lower-cased html.
target_terms == << "team", "leadership", "management", "people", "staff", "executives" >>

\* An html body is modelled by the facts the code reads off it:
\*   kind      "none" (html is None), "empty" (the empty string), "page"
\*   terms     the target_terms that occur in it
\*   antibot   the ANTI_BOT_MARKERS that match it
\*   markers   the JS_MARKERS that match it
\*   anchors   whether it contains href="mailto: or href="tel:
\*   cards     number of matches of TARGET_CARD_CLASS_RE
\*   headings  number of <h3>/<h4> tags
NoHtml(k) ==
    [kind |-> k, terms |-> {}, antibot |-> {}, markers |-> {},
     anchors |-> FALSE, cards |-> 0, headings |-> 0]

HtmlTruthy(html) == html.kind = "page"

detect_anti_bot(html) ==
    IF ~HtmlTruthy(html) THEN FALSE
    ELSE \E i \in 1..Len(ANTI_BOT_MARKERS) : ANTI_BOT_MARKERS[i] \in html.antibot

JsReason(pat) == "js:" \o pat

RECURSIVE JsReasonsFrom(_, _)
JsReasonsFrom(html, i) ==
    IF i > Len(JS_MARKERS) THEN << >>
    ELSE (IF JS_MARKERS[i] \in html.markers THEN << JsReason(JS_MARKERS[i]) >> ELSE << >>)
            \o JsReasonsFrom(html, i + 1)

detect_js_markers(html) ==
    IF ~HtmlTruthy(html) THEN << >> ELSE JsReasonsFrom(html, 1)

detect_cards_without_contacts(html) ==
    IF ~HtmlTruthy(html) THEN FALSE
    ELSE IF html.anchors THEN FALSE
    ELSE IF html.cards >= 3 THEN TRUE
    ELSE html.headings >= 8

EscalationDecision(e, rs) == [escalate |-> e, reasons |-> rs]

MimeReason(mime) == "mime!=text/html (" \o mime \o ")"

ThinLimit == 5 * 1024

decide_escalation(fetch, selector_hits) ==
    LET r1 == IF fetch.mime # None /\ fetch.mime # Some("text/html")
              THEN << MimeReason(fetch.mime[1]) >> ELSE << >>
        r2 == IF selector_hits = 0 /\ fetch.content_length < ThinLimit
              THEN << "selector_hits==0 && content_length<5KiB" >> ELSE << >>
        r3 == IF detect_anti_bot(fetch.html)
              THEN << "anti-bot markers detected" >> ELSE << >>
        r4 == detect_js_markers(fetch.html)
        r5 == IF detect_cards_without_contacts(fetch.html)
              THEN << "cards_present_but_no_mailto_tel" >> ELSE << >>
        reasons == r1 \o r2 \o r3 \o r4 \o r5
    IN  EscalationDecision(Len(reasons) > 0, reasons)

\* str(r).startswith("js:")
StartsWithJs(r) == \E i \in 1..Len(JS_MARKERS) : r = JsReason(JS_MARKERS[i])


\* ------------------------------------------------------------ fetchers
\* StaticFetcher.fetch: raises (httpx error), reports a robots block, or
\* returns the response; html is the body only for text/html responses.
FetchBlocked ==
    [kind |-> "ok", status_code |-> 0, mime |-> None, content_length |-> 0,
     html |-> NoHtml("none"), blocked_by_robots |-> TRUE]

FetchRaises ==
    [kind |-> "raise", status_code |-> 0, mime |-> None, content_length |-> 0,
     html |-> NoHtml("none"), blocked_by_robots |-> FALSE]

Page(terms, antibot, markers, anchors, cards, headings) ==
    [kind |-> "page", terms |-> terms, antibot |-> antibot, markers |-> markers,
     anchors |-> anchors, cards |-> cards, headings |-> headings]

FetchResponse(status, mime, len, html) ==
    [kind |-> "ok", status_code |-> status, mime |-> mime, content_length |-> len,
     html |-> html, blocked_by_robots |-> FALSE]

\* The text/html responses of the run: a team page with contact anchors;
\* a thin page of headings; a page with JS markers and a target term; a
\* large page with a JS marker and no target term; a challenge page with a
\* JS marker; a page of cards without contact anchors.
HtmlResponses ==
    { FetchResponse(200, Some("text/html"), 8000,
                    Page({"team", "people"}, {}, {}, TRUE, 3, 8)),
      FetchResponse(200, Some("text/html"), 1000,
                    Page({}, {}, {}, FALSE, 0, 8)),
      FetchResponse(200, Some("text/html"), 8000,
                    Page({"team"}, {}, {"ng-app", "data-cfemail"}, TRUE, 0, 0)),
      FetchResponse(200, Some("text/html"), 8000,
                    Page({}, {}, {"data-reactroot"}, TRUE, 0, 0)),
      FetchResponse(200, Some("text/html"), 8000,
                    Page({"team"}, {"__cf_chl_"}, {"data-cfemail"}, FALSE, 2, 0)),
      FetchResponse(200, Some("text/html"), 8000,
                    Page({"staff"}, {}, {}, FALSE, 3, 0)) }

FetchOutcomes ==
    {FetchRaises, FetchBlocked}
        \cup HtmlResponses
        \cup { FetchResponse(200, Some("application/json"), 1000, NoHtml("none")),
               FetchResponse(200, None, 8000, NoHtml("none")) }
        \cup { FetchResponse(404, Some("text/html"), 1000, NoHtml("empty")) }

\* ContactExtractor.extract_from_static_html on the static html: raises or
\* returns a list of contacts (contacts are named by where they were found).
ExtractOutcomes ==
    { [raises |-> TRUE, contacts |-> << >>],
      [raises |-> FALSE, contacts |-> << >>],
      [raises |-> FALSE, contacts |-> << "static:1" >>] }

NoExtract == [raises |-> FALSE, contacts |-> << "unused" >>]

\* Step 5: what getattr(extractor, 'extract_with_playwright') is and does
\* (dom: "missing" not callable, "raises", "notlist", "list"), what
\* PlaywrightFetcher.fetch returns in the except branch (it catches every
\* exception and reports it in .error), and what extract_from_static_html
\* makes of pw.html.
RenderOutcomes ==
    { [dom |-> "list", dom_contacts |-> c, pw_error |-> FALSE, pw_status |-> 0, ex2 |-> NoExtract] :
        c \in { << >>, << "dom:1" >> } }
    \cup
    { [dom |-> d, dom_contacts |-> << >>, pw_error |-> TRUE, pw_status |-> 0, ex2 |-> NoExtract] :
        d \in {"missing", "raises", "notlist"} }
    \cup
    { [dom |-> "raises", dom_contacts |-> << >>, pw_error |-> FALSE, pw_status |-> 200, ex2 |-> e] :
        e \in { [raises |-> TRUE, contacts |-> << >>],
                [raises |-> FALSE, contacts |-> << >>],
                [raises |-> FALSE, contacts |-> << "pwhtml:1" >>] } }

NoRender ==
    [dom |-> "unused", dom_contacts |-> << >>, pw_error |-> FALSE, pw_status |-> 0, ex2 |-> NoExtract]

\* ------------------------------------------------------------ ingest.py
\* DomainTracker(max_headless_pct=0.2), as the fraction 1/5
MaxHeadlessPctNum == 1

MaxHeadlessPctDen == 5

ZeroStats == [static |-> 0, headless |-> 0]

\* record_fetch counting every fetch as a static one
record_fetch_as_static(stats, domain, method) ==
    [stats EXCEPT ![domain].static = @ + 1]

\* DomainTracker.record_fetch
record_fetch(stats, domain, method) ==
    IF method = "playwright"
    THEN [stats EXCEPT ![domain].headless = @ + 1]
    ELSE [stats EXCEPT ![domain].static = @ + 1]

\* can_use_headless with the share compared by <= instead of <
can_use_headless_at_limit(stats, domain) ==
    LET total == stats[domain].static + stats[domain].headless
    IN  IF total = 0 THEN TRUE
        ELSE stats[domain].headless * MaxHeadlessPctDen <= MaxHeadlessPctNum * total

\* can_use_headless with the headless count compared to the static count alone
can_use_headless_of_static(stats, domain) ==
    LET total == stats[domain].static + stats[domain].headless
    IN  IF total = 0 THEN TRUE
        ELSE stats[domain].headless * MaxHeadlessPctDen < MaxHeadlessPctNum * stats[domain].static

\* DomainTracker.can_use_headless: headless / total < max_headless_pct
can_use_headless(stats, domain) ==
    LET total == stats[domain].static + stats[domain].headless
    IN  IF total = 0 THEN TRUE
        ELSE stats[domain].headless * MaxHeadlessPctDen < MaxHeadlessPctNum * total

\* spend with the global count given back
spend_global_refunded(g) == g

\* HeadlessBudget.spend
spend_global(g) == g + 1

spend_domain(pd, domain) == [pd EXCEPT ![domain] = @ + 1]

\* can_spend with the global cap compared by > instead of >=
can_spend_off_by_one(pd, g, dcap, gcap, domain) ==
    IF g > gcap THEN FALSE ELSE pd[domain] < dcap

\* HeadlessBudget.can_spend
can_spend(pd, g, dcap, gcap, domain) ==
    IF g >= gcap THEN FALSE ELSE pd[domain] < dcap

\* IngestResult with its __post_init__ (contacts None becomes [])
IngestResult(url, method, success, html, status_code, contacts, escalation_decision, error) ==
    [url |-> url, method |-> method, success |-> success, html |-> html,
     status_code |-> status_code,
     contacts |-> IF contacts = None THEN Some(<< >>) ELSE contacts,
     escalation_decision |-> escalation_decision, error |-> error]

\* IngestPipeline._extract_domain
_extract_domain(url) == url.netloc

\* A pipeline for which every path is a target
AnyPathIsTarget(url) == TRUE

\* IngestPipeline._is_target_url: re.search of
\* /(our-)?team|people|leadership|management in the lower-cased path
_is_target_url(url) == url.path \in {"/team"}

\* IngestPipeline._count_selector_hits
_count_selector_hits(html) ==
    IF ~HtmlTruthy(html) THEN 0
    ELSE Cardinality({i \in 1..Len(target_terms) : target_terms[i] \in html.terms})

\* The value of result.html: None, or the body and which fetcher it came from
HtmlOf(src, html) == IF html.kind = "none" THEN None ELSE Some(<< src, html.kind >>)

\* Lines 209-224: the result of a robots block
BlockedByRobots(url) ==
    IngestResult(url, "static", FALSE, None, 0, Some(<< >>), None,
                 Some("Blocked by robots.txt"))

\* The status test of line 226 with 500 in place of 400
IsServerFailure(fr) == fr.status_code >= 500

\* Line 226: if static_result.status_code >= 400
IsHttpFailure(fr) == fr.status_code >= 400

\* Lines 227-241: the result of an HTTP failure
HttpFailure(url, fr) ==
    IngestResult(url, "static", FALSE, HtmlOf("static", fr.html), fr.status_code,
                 Some(<< >>), None, Some("HTTP " \o ToString(fr.status_code)))

\* The except handler of ingest (lines 415-430)
PipelineError(url) ==
    IngestResult(url, "unknown", FALSE, None, 0, Some(<< >>), None, Some("Pipeline error"))


\* The second-pass rule of line 260 without the reason it appends
TargetNoReason(esc) == EscalationDecision(TRUE, esc.reasons)

\* Line 260: the second-pass rule, a target URL whose static extraction found nothing
TargetNoContacts(esc) ==
    EscalationDecision(TRUE, esc.reasons \o << "target_url_no_contacts" >>)

\* Escalation kept where lines 270 and 274 call it off
StillEscalating(esc) == EscalationDecision(TRUE, esc.reasons)

\* Escalation called off with the reasons dropped
CalledOffCleared(esc) == EscalationDecision(FALSE, << >>)

\* Lines 270 and 274: escalation called off, the reasons kept
CalledOff(esc) == EscalationDecision(FALSE, esc.reasons)

\* Lines 242-274 of ingest: the escalation decision, the static extraction
\* and the rules that revise the decision.  ex is what
\* extract_from_static_html does if it is called.
StaticStage(url, fr, ex, headless_enabled) ==
    LET is_target == _is_target_url(url)
        selector_hits == _count_selector_hits(fr.html)
        esc0 == decide_escalation(fr, selector_hits)
        html_ok == fr.mime = Some("text/html") /\ HtmlTruthy(fr.html)
        js_only == \A i \in 1..Len(esc0.reasons) : StartsWithJs(esc0.reasons[i])
        called == IF ~esc0.escalate THEN html_ok ELSE js_only /\ html_ok
        soft == esc0.escalate /\ js_only /\ html_ok
                    /\ ex.contacts # << >> /\ selector_hits > 0
        contacts_static ==
            IF ~esc0.escalate
            THEN (IF html_ok THEN Some(ex.contacts) ELSE Some(<< >>))
            ELSE (IF soft THEN Some(ex.contacts) ELSE None)
        esc1 ==
            IF ~esc0.escalate
            THEN (IF headless_enabled /\ is_target /\ Len(contacts_static[1]) = 0
                  THEN TargetNoContacts(esc0)
                  ELSE esc0)
            ELSE (IF soft THEN CalledOff(esc0) ELSE esc0)
        esc2 == IF ~is_target THEN CalledOff(esc1) ELSE esc1
    IN  [raised |-> called /\ ex.raises,
         escalation |-> esc2,
         contacts_static |-> contacts_static,
         decided |-> esc0,
         extract_calls |-> IF called THEN 1 ELSE 0,
         static_extracted |-> IF called /\ ~ex.raises THEN Some(ex.contacts) ELSE None]

\* Whether StaticStage calls extract_from_static_html (lines 250 and 264)
CallsStaticExtract(fr) ==
    LET esc0 == decide_escalation(fr, _count_selector_hits(fr.html))
        html_ok == fr.mime = Some("text/html") /\ HtmlTruthy(fr.html)
    IN  IF ~esc0.escalate THEN html_ok
        ELSE html_ok /\ \A i \in 1..Len(esc0.reasons) : StartsWithJs(esc0.reasons[i])

\* Step 3 (lines 277-293): the static result when there is nothing to escalate
StaticSuccess(url, fr, st) ==
    IngestResult(url, "static", TRUE, HtmlOf("static", fr.html), fr.status_code,
                 IF st.contacts_static # None THEN st.contacts_static ELSE Some(<< >>),
                 Some(st.escalation), None)

\* The result of the denied percentage gate, handing back whatever the static
\* extraction of the call returned
QuotaExceededWithExtracted(url, fr, st) ==
    IngestResult(url, "static", FALSE, HtmlOf("static", fr.html), fr.status_code,
                 IF st.static_extracted # None THEN st.static_extracted ELSE st.contacts_static,
                 Some(st.escalation),
                 Some("Headless quota exceeded for " \o _extract_domain(url)))

\* Step 4 (lines 296-319): the results of the two denied gates
QuotaExceeded(url, fr, st) ==
    IngestResult(url, "static", FALSE, HtmlOf("static", fr.html), fr.status_code,
                 st.contacts_static, Some(st.escalation),
                 Some("Headless quota exceeded for " \o _extract_domain(url)))

BudgetExhausted(url, fr, st) ==
    IngestResult(url, "static", FALSE, HtmlOf("static", fr.html), fr.status_code,
                 st.contacts_static, Some(st.escalation),
                 Some("Headless budget exhausted (domain=" \o _extract_domain(url) \o ")"))

\* Step 5 after the counters were raised (lines 327-413)
RenderStage(url, fr, st, rd) ==
    IF rd.dom # "list"
    THEN \* except branch: PlaywrightFetcher.fetch, then the static extractor on pw.html
         IF rd.pw_error
         THEN IngestResult(url, "static", TRUE, HtmlOf("static", fr.html), fr.status_code,
                           st.contacts_static, Some(st.escalation), None)
         ELSE IF rd.ex2.raises
         THEN PipelineError(url)
         ELSE IngestResult(url, "playwright", TRUE, Some(<< "playwright", "page" >>), rd.pw_status,
                           Some(rd.ex2.contacts), Some(st.escalation), None)
    ELSE IF Len(rd.dom_contacts) > 0
    THEN IngestResult(url, "playwright", TRUE, None, 200,
                      Some(rd.dom_contacts), Some(st.escalation), None)
    ELSE IngestResult(url, "static", TRUE, HtmlOf("static", fr.html), fr.status_code,
                      st.contacts_static, Some(st.escalation), None)


\* ------------------------------------------------------------------ state
VARIABLES
    domain_stats,     \* DomainTracker._domain_stats (an absent domain reads as zeros)
    per_domain,       \* HeadlessBudget._per_domain (an absent domain reads as 0)
    global_used,      \* HeadlessBudget._global_used
    enable_headless,  \* IngestPipeline.enable_headless
    domain_cap,       \* HeadlessBudget.domain_cap
    global_cap,       \* HeadlessBudget.global_cap
    call,             \* what the last finished ingest() call did and returned
    pc,               \* concurrent runs: where each thread is inside ingest()
    loc,              \* concurrent runs: the locals of each thread's ingest()
    decision_in,      \* decide_escalation: its arguments (fetch, selector_hits)
    decision_out,     \* decide_escalation: the EscalationDecision it returned
    extractor,        \* ContactExtractor: the instance fields that outlive a call
    extraction,       \* ContactExtractor: what the last top-level extraction did
    export_in,        \* export: the raw contact list handed to the export layer
    export_kept,      \* export: what dedupe_contacts_for_export returned
    export_rows,      \* export: what consolidate_per_person returned
    collected,        \* ContactExtractor: the contacts an extraction collected
    returned          \* ContactExtractor: what _postprocess_and_dedup made of them

\* The state of the pipeline object and of the calls on it
ingest_vars == << domain_stats, per_domain, global_used, enable_headless, domain_cap,
                  global_cap, call, pc, loc >>

\* The arguments and results of the functions that are run on their own
extract_vars == << extractor, extraction >>

export_vars == << export_in, export_kept, export_rows >>

post_vars == << collected, returned >>

lib_vars == << decision_in, decision_out, extract_vars, export_vars, post_vars >>

vars == << ingest_vars, lib_vars >>

Threads == {1, 2}

\* How the pipelines of the run are constructed (enable_headless, domain_cap,
\* global_cap): the defaults, tighter caps, and headless disabled
Configs == { <<TRUE, 2, 10>>, <<TRUE, 1, 10>>, <<TRUE, 2, 1>>, <<FALSE, 2, 10>> }

\* What one ingest() call did: its url, whether it raised, the IngestResult it
\* returned, and which of its steps ran.
NoCall ==
    [url |-> [netloc |-> "a.com", path |-> "/team", parses |-> TRUE],
     done |-> FALSE,                \* a call has finished
     raised |-> FALSE,              \* ingest() let an exception out
     result |-> None,               \* the IngestResult returned
     fetched |-> None,              \* static fetch returned: <<blocked, status_code>>
     decided |-> None,              \* what decide_escalation returned
     extract_calls |-> 0,           \* calls of extract_from_static_html on the static html
     static_extracted |-> None,     \* what that extraction returned
     gate_pct |-> None,             \* what can_use_headless returned
     gate_hard |-> None,            \* what can_spend returned
     headless_started |-> FALSE,    \* step 5 reached
     render |-> "unused",           \* rd.dom of step 5
     pw_error |-> FALSE]            \* pw.error of the except branch

NoStage ==
    [raised |-> FALSE, escalation |-> EscalationDecision(FALSE, << >>),
     contacts_static |-> None, decided |-> EscalationDecision(FALSE, << >>),
     extract_calls |-> 0, static_extracted |-> None]

\* ingest(url) up to the guardrails (lines 160-293), run on the tracker's
\* stats: the stats it leaves, the record of the call, the locals the later
\* steps read, and whether the call goes on to step 4 (pending) or has returned.
BeforeGates(url, fr, ex, headless_enabled, stats) ==
    LET base == [NoCall EXCEPT !.url = url, !.done = TRUE]
        out(s, c, st, p) == [stats |-> s, call |-> c, st |-> st, pending |-> p]
    IN
    IF ~url.parses
    THEN \* line 160: urlparse raises outside the try block
         out(stats, [base EXCEPT !.raised = TRUE], NoStage, FALSE)
    ELSE IF fr.kind = "raise"
    THEN out(stats, [base EXCEPT !.result = Some(PipelineError(url))], NoStage, FALSE)
    ELSE
    LET domain == _extract_domain(url)
        stats1 == record_fetch(stats, domain, "static")
        c1 == [base EXCEPT !.fetched = Some(<< fr.blocked_by_robots, fr.status_code >>)]
    IN
    IF fr.blocked_by_robots
    THEN out(stats1, [c1 EXCEPT !.result = Some(BlockedByRobots(url))], NoStage, FALSE)
    ELSE IF IsHttpFailure(fr)
    THEN out(stats1, [c1 EXCEPT !.result = Some(HttpFailure(url, fr))], NoStage, FALSE)
    ELSE
    LET st == StaticStage(url, fr, ex, headless_enabled)
        c2 == [c1 EXCEPT !.decided = Some(st.decided),
                         !.extract_calls = st.extract_calls,
                         !.static_extracted = st.static_extracted]
    IN
    IF st.raised
    THEN out(stats1, [c2 EXCEPT !.result = Some(PipelineError(url))], st, FALSE)
    ELSE IF ~st.escalation.escalate \/ ~headless_enabled
    THEN out(stats1, [c2 EXCEPT !.result = Some(StaticSuccess(url, fr, st))], st, FALSE)
    ELSE out(stats1, c2, st, TRUE)

\* Steps 4 and 5 up to the rendered stage (lines 295-325), run on the counters
\* (a.stats, pd, g) by a call that BeforeGates left pending
Guardrails(a, url, fr, dcap, gcap, pd, g) ==
    LET domain == _extract_domain(url)
        out(s, p, gg, c) == [stats |-> s, pd |-> p, g |-> gg, call |-> c, st |-> a.st]
    IN
    IF ~a.pending
    THEN out(a.stats, pd, g, a.call)
    ELSE IF ~can_use_headless(a.stats, domain)
    THEN out(a.stats, pd, g,
             [a.call EXCEPT !.gate_pct = Some(FALSE),
                            !.result = Some(QuotaExceeded(url, fr, a.st))])
    ELSE IF ~can_spend(pd, g, dcap, gcap, domain)
    THEN out(a.stats, pd, g,
             [a.call EXCEPT !.gate_pct = Some(TRUE), !.gate_hard = Some(FALSE),
                            !.result = Some(BudgetExhausted(url, fr, a.st))])
    ELSE out(record_fetch(a.stats, domain, "playwright"),
             spend_domain(pd, domain), spend_global(g),
             [a.call EXCEPT !.gate_pct = Some(TRUE), !.gate_hard = Some(TRUE),
                            !.headless_started = TRUE])

\* ingest(url) up to the rendered stage (lines 160-325)
BeforeRender(url, fr, ex, headless_enabled, dcap, gcap, stats, pd, g) ==
    Guardrails(BeforeGates(url, fr, ex, headless_enabled, stats), url, fr, dcap, gcap, pd, g)

\* The rendered stage of a call that reached it (lines 327-413)
AfterRender(pre, url, fr, rd) ==
    IF pre.call.headless_started
    THEN [pre EXCEPT !.call.render = rd.dom, !.call.pw_error = rd.pw_error,
                     !.call.result = Some(RenderStage(url, fr, pre.st, rd))]
    ELSE pre

\* The inputs ingest() reads on the way it takes
FetchInputs(url) == IF url.parses THEN FetchOutcomes ELSE {FetchRaises}

ExtractInputs(url, fr) ==
    IF url.parses /\ fr.kind = "ok" /\ ~fr.blocked_by_robots /\ ~IsHttpFailure(fr)
          /\ CallsStaticExtract(fr)
    THEN ExtractOutcomes ELSE {NoExtract}

\* The locals of a thread's ingest(): the record of its call so far, the
\* static FetchResult, the outcome of lines 242-274, and the calls it has made
NoLocals == [call |-> NoCall, fr |-> FetchRaises, st |-> NoStage, n |-> 0]

\* -------------------------------------------------------- extractors.py
\* Contact, with the selector of its evidence
Contact(company, person, role, type, value, selector) ==
    [company |-> company, person_name |-> person, role_title |-> role,
     contact_type |-> type, contact_value |-> value, selector |-> selector]

\* (s or '').strip().lower() on the strings of the model
StripLower(s) ==
    CASE s = "Acme" -> "acme"
      [] s = " acme" -> "acme"
      [] s = "acme " -> "acme"
      [] s = "ACME" -> "acme"
      [] s = "Ann Lee" -> "ann lee"
      [] s = "Ann  Lee." -> "ann  lee."
      [] s = "ann lee " -> "ann lee"
      [] s = "Bob Ray" -> "bob ray"
      [] s = "Unknown" -> "unknown"
      [] s = " UNKNOWN" -> "unknown"
      [] s = "CEO" -> "ceo"
      [] s = "Ann@Acme.com" -> "ann@acme.com"
      [] s = "Acme Inc" -> "acme inc"
      [] s = "Acme  Inc" -> "acme  inc"
      [] s = "Mailing Address" -> "mailing address"
      [] OTHER -> s

\* re.sub(r"\D", "", s) on the strings of the model
DigitsOnly(s) ==
    CASE s = "+1 (555) 010-0000" -> "15550100000"
      [] s = "1.555.010.0000" -> "15550100000"
      [] s = "800-555-0100" -> "8005550100"
      [] s = "tel:+1 (555) 010-0000" -> "15550100000"
      [] s = "+1 (401) 555-1234" -> "14015551234"
      [] s = "401 555 1234" -> "4015551234"
      [] s = "555-0100" -> "5550100"
      [] s = "Oct 10, 2023 10:00" -> "1020231000"
      [] OTHER -> s

\* The selectors the extractor records for contacts found in mailto / tel anchors
MailtoSelectors == {".team a[href*='mailto:']", "a[href*='mailto:']"}

TelSelectors == {".team a[href*='tel:']", "a[href*='tel:']"}

\* want in sel.lower(), for the selectors and the needles of the model
Contains(sel, want) ==
    CASE want \in {"mailto:", "a[href*='mailto:']"} -> sel \in MailtoSelectors
      [] want \in {"tel:", "a[href*='tel:']"} -> sel \in TelSelectors
      [] OTHER -> FALSE

RECURSIVE LexGreater(_, _)
\* a > b for two Python tuples of integers of the same length
LexGreater(a, b) ==
    IF a = << >> \/ b = << >> THEN FALSE
    ELSE IF Head(a) # Head(b) THEN Head(a) > Head(b)
    ELSE LexGreater(Tail(a), Tail(b))

\* _postprocess_and_dedup: norm_value
norm_value(c) ==
    IF c.contact_type = "email" THEN StripLower(c.contact_value)
    ELSE IF c.contact_type = "phone" THEN DigitsOnly(c.contact_value)
    ELSE StripLower(c.contact_value)

\* _postprocess_and_dedup: the key (company, person, type, value)
dedup_key(c) ==
    << StripLower(c.company), StripLower(c.person_name), c.contact_type, norm_value(c) >>

\* quality with the two preferences swapped: known role before anchor
quality_role_first(c) ==
    << IF StripLower(c.role_title) # "unknown" /\ c.role_title # "" THEN 1 ELSE 0,
       IF Contains(c.selector, "mailto:") \/ Contains(c.selector, "tel:") THEN 1 ELSE 0 >>

\* _postprocess_and_dedup: quality = (anchor_pref, role_good)
quality(c) ==
    << IF Contains(c.selector, "mailto:") \/ Contains(c.selector, "tel:") THEN 1 ELSE 0,
       IF c.role_title # "" /\ StripLower(c.role_title) # "unknown" THEN 1 ELSE 0 >>

\* Position of key in a list of entries that each carry a key, 0 if absent
IndexOfKey(entries, key) ==
    IF \E i \in 1..Len(entries) : entries[i].key = key
    THEN CHOOSE i \in 1..Len(entries) : entries[i].key = key
    ELSE 0

RECURSIVE best_by_key(_, _)
\* First loop of _postprocess_and_dedup: the best contact of every key
best_by_key(contacts, best) ==
    IF contacts = << >> THEN best
    ELSE LET c == Head(contacts)
             i == IndexOfKey(best, dedup_key(c))
         IN  best_by_key(Tail(contacts),
                 IF i = 0 THEN Append(best, [key |-> dedup_key(c), c |-> c])
                 ELSE IF LexGreater(quality(c), quality(best[i].c))
                 THEN [best EXCEPT ![i].c = c]
                 ELSE best)

RECURSIVE chosen_per_person(_, _)
\* Second loop: per (company, person) the best email and the best phone
chosen_per_person(best, chosen) ==
    IF best = << >> THEN chosen
    ELSE LET c == Head(best).c
             kp == << Head(best).key[1], Head(best).key[2] >>
             ctype == c.contact_type
             i == IndexOfKey(chosen, kp)
             ch == IF i = 0
                   THEN Append(chosen, [key |-> kp, email |-> None, phone |-> None])
                   ELSE chosen
             j == IF i = 0 THEN Len(ch) ELSE i
         IN  chosen_per_person(Tail(best),
                 IF ctype \notin {"email", "phone"} THEN chosen
                 ELSE IF ch[j][ctype] = None
                         \/ LexGreater(quality(c), quality(ch[j][ctype][1]))
                 THEN [ch EXCEPT ![j][ctype] = Some(c)]
                 ELSE ch)

RECURSIVE links_of(_, _)
\* Second loop: the links, one per (company, person, value)
links_of(best, out) ==
    IF best = << >> THEN out
    ELSE LET c == Head(best).c
             lkey == << Head(best).key[1], Head(best).key[2], Head(best).key[4] >>
         IN  links_of(Tail(best),
                 IF c.contact_type \in {"email", "phone"} THEN out
                 ELSE IF \E i \in 1..Len(out) : out[i].key = lkey THEN out
                 ELSE Append(out, [key |-> lkey, c |-> c]))

RECURSIVE chosen_out(_)
\* Third loop: the selected email, then phone, of every person
chosen_out(chosen) ==
    IF chosen = << >> THEN << >>
    ELSE Head(chosen).email \o Head(chosen).phone \o chosen_out(Tail(chosen))

\* ContactExtractor._postprocess_and_dedup
_postprocess_and_dedup(contacts) ==
    IF contacts = << >> THEN << >>
    ELSE LET best == best_by_key(contacts, << >>)
             links == links_of(best, << >>)
         IN  [i \in 1..Len(links) |-> links[i].c]
                 \o chosen_out(chosen_per_person(best, << >>))

\* self._XDOM_THRESHOLD
XDOM_THRESHOLD == 5

\* self._XDOM_W
XDOM_W ==
    [in_person_card |-> 0, has_title |-> 1, mailto |-> 2, has_phone |-> 2,
     has_vcard |-> 2, show_email_trigger |-> 1, domain_repeat_2plus |-> 1,
     domain_repeat_3plus |-> 2, domain_in_footer |-> 2, site_repeat_3plus |-> 1,
     site_repeat_5plus |-> 2, negative_zone |-> -2]

\* The follow-up budget a top-level extraction starts with
D1_BUDGET == 5

\* ContactExtractor._xdom_score_static (the score; the signal names are for the log)
_xdom_score_static(has_title, from_mailto, has_phone, has_vcard, has_show_trigger, page_domain_count, site_domain_count, domain_in_footer, negative_zone) ==
      (IF has_title THEN XDOM_W.has_title ELSE 0)
    + (IF from_mailto THEN XDOM_W.mailto ELSE 0)
    + (IF has_phone THEN XDOM_W.has_phone ELSE 0)
    + (IF has_vcard THEN XDOM_W.has_vcard ELSE 0)
    + (IF has_show_trigger THEN XDOM_W.show_email_trigger ELSE 0)
    + (IF page_domain_count >= 3 THEN XDOM_W.domain_repeat_3plus
       ELSE IF page_domain_count >= 2 THEN XDOM_W.domain_repeat_2plus ELSE 0)
    + (IF site_domain_count >= 5 THEN XDOM_W.site_repeat_5plus
       ELSE IF site_domain_count >= 3 THEN XDOM_W.site_repeat_3plus ELSE 0)
    + (IF domain_in_footer THEN XDOM_W.domain_in_footer ELSE 0)
    + (IF negative_zone THEN XDOM_W.negative_zone ELSE 0)

\* ContactExtractor._xdom_min_confirmation (ok)
_xdom_min_confirmation(has_phone, has_vcard, page_repeat, in_footer, site_repeat) ==
    has_phone \/ has_vcard \/ page_repeat >= 2 \/ in_footer \/ site_repeat >= 3

\* The instance fields of a ContactExtractor that outlive a call; the mailto
\* counts and the footer text are kept for the one foreign domain of the model
FreshExtractor ==
    [d1_budget |-> None, site_host |-> None, site_mailto_counts |-> 0,
     page_mailto_counts |-> 0, footer_mentions |-> FALSE]

\* A person card of a page: the name found in it, the email in it ("none", on
\* the site's "own" domain, on the "foreign" domain) and whether it sits in a
\* mailto anchor, the hints the score reads, and the page its name links to
Card(name, email, from_mailto, has_title, phone, has_vcard, show_trigger, profile) ==
    [name |-> name, email |-> email, from_mailto |-> from_mailto, has_title |-> has_title,
     phone |-> phone, has_vcard |-> has_vcard, show_trigger |-> show_trigger,
     profile |-> profile, text_phone |-> "", phone_marker |-> FALSE]

\* A card with a name, a profile link and no email or phone
BareCard(name, profile) == Card(name, "none", FALSE, FALSE, FALSE, FALSE, FALSE, profile)

\* A card with a foreign email in a mailto anchor, a title and a reveal trigger
ForeignCard(name) == Card(name, "foreign", TRUE, TRUE, FALSE, FALSE, TRUE, "")

\* A card with nothing but a foreign email in a mailto anchor
LoneForeignCard(name) == Card(name, "foreign", TRUE, FALSE, FALSE, FALSE, FALSE, "")

\* A card with a name, a title and a number in its text (what phone_pattern
\* matches first), after a marker word such as "Phone:" or not
TextPhoneCard(name, raw, marker) ==
    [Card(name, "none", FALSE, TRUE, FALSE, FALSE, FALSE, "")
        EXCEPT !.text_phone = raw, !.phone_marker = marker]

\* The static pages of the model, by name: host, whether the path is in a
\* negative zone, the mailto anchors of the foreign domain on the page,
\* whether the footer mentions it, whether the source URL spells its scheme
\* in upper case (Evidence then refuses it), and the cards
StaticPage(pid) ==
    CASE pid = "listing6" ->
           [host |-> "a.com", negative_zone |-> FALSE, mailto_count |-> 0, footer |-> FALSE,
            upper_scheme |-> FALSE,
            cards |-> << BareCard("p1", "bio"), BareCard("p2", "bio"), BareCard("p3", "bio"),
                         BareCard("p4", "bio"), BareCard("p5", "bio"), BareCard("p6", "bio") >>]
      [] pid = "bio" ->
           [host |-> "a.com", negative_zone |-> FALSE, mailto_count |-> 0, footer |-> FALSE,
            upper_scheme |-> FALSE,
            cards |-> << Card("p1", "own", TRUE, TRUE, TRUE, FALSE, FALSE, "") >>]
      [] pid = "directory" ->
           [host |-> "a.com", negative_zone |-> FALSE, mailto_count |-> 0, footer |-> FALSE,
            upper_scheme |-> FALSE,
            cards |-> << BareCard("p1", "listing6") >>]
      [] pid = "partner" ->
           [host |-> "a.com", negative_zone |-> FALSE, mailto_count |-> 1, footer |-> FALSE,
            upper_scheme |-> FALSE,
            cards |-> << ForeignCard("p1") >>]
      [] pid = "partners2" ->
           [host |-> "a.com", negative_zone |-> FALSE, mailto_count |-> 2, footer |-> FALSE,
            upper_scheme |-> FALSE,
            cards |-> << >>]
      [] pid = "elsewhere" ->
           [host |-> "b.com", negative_zone |-> FALSE, mailto_count |-> 2, footer |-> FALSE,
            upper_scheme |-> FALSE,
            cards |-> << >>]
      [] pid = "broken" ->
           [host |-> "b.com", negative_zone |-> FALSE, mailto_count |-> 0, footer |-> FALSE,
            upper_scheme |-> TRUE,
            cards |-> << BareCard("p1", "bio"), BareCard("p2", "bio"), BareCard("p3", "bio"),
                         BareCard("p4", "bio"),
                         Card("p5", "own", TRUE, TRUE, FALSE, FALSE, FALSE, "") >>]

      [] pid = "phones" ->
           [host |-> "a.com", negative_zone |-> FALSE, mailto_count |-> 0, footer |-> FALSE,
            upper_scheme |-> FALSE,
            cards |-> << TextPhoneCard("p1", "+1 (401) 555-1234", TRUE),
                         TextPhoneCard("p2", "20240602", FALSE),
                         TextPhoneCard("p3", "401 555 1234", FALSE),
                         TextPhoneCard("p4", "2023101000", TRUE) >>]

StaticPages ==
    {"listing6", "bio", "directory", "partner", "partners2", "elsewhere", "broken", "phones"}

\* ContactExtractor._xdom_reset_or_update_site_counts without the reset
update_site_counts_only(x, host) ==
    [x EXCEPT !.site_host = IF host # "" THEN Some(host) ELSE @,
              !.site_mailto_counts = @ + x.page_mailto_counts]

\* ContactExtractor._xdom_reset_or_update_site_counts
_xdom_reset_or_update_site_counts(x, host) ==
    LET x1 == IF host # "" /\ x.site_host # Some(host)
              THEN [x EXCEPT !.site_host = Some(host), !.site_mailto_counts = 0]
              ELSE x
    IN  [x1 EXCEPT !.site_mailto_counts = @ + x1.page_mailto_counts]

\* ContactExtractor._xdom_prepare_context_static
_xdom_prepare_context_static(x, page) ==
    _xdom_reset_or_update_site_counts(
        [x EXCEPT !.page_mailto_counts = page.mailto_count, !.footer_mentions = page.footer],
        page.host)

\* The score of a foreign email of a card, from the instance fields
XdomScore(x, negative_zone, card) ==
    _xdom_score_static(card.has_title, card.from_mailto, card.phone, card.has_vcard,
                       card.show_trigger, x.page_mailto_counts, x.site_mailto_counts,
                       x.footer_mentions, negative_zone)

\* The strong signals of a foreign email of a card, from the instance fields
XdomStrong(x, card) ==
    _xdom_min_confirmation(card.phone, card.has_vcard, x.page_mailto_counts,
                           x.footer_mentions, x.site_mailto_counts)

\* The cross-domain branch of the email policy: score, then the strong-signal gate
XdomAccept(x, negative_zone, card) ==
    /\ XdomScore(x, negative_zone, card) >= XDOM_THRESHOLD
    /\ XdomStrong(x, card)

\* What the log of an extraction says of a foreign email it emitted
Emitted(path, score, strong) == [path |-> path, score |-> score, strong |-> strong]

EmailValue(card) == card.name \o (IF card.email = "own" THEN "@a.com" ELSE "@f.com")

RoleOf(card) == IF card.has_title THEN "CEO" ELSE "Unknown"

\* choose the first matching by name (the names of the model are in lower case)
FirstByName(contacts, name) ==
    IF \E i \in 1..Len(contacts) : contacts[i].person_name = name
    THEN LET i == CHOOSE i \in 1..Len(contacts) :
                     /\ contacts[i].person_name = name
                     /\ \A j \in 1..(i - 1) : contacts[j].person_name # name
         IN  << contacts[i] >>
    ELSE << >>

\* What a step of an extraction leaves: the extractor's fields, the contacts
\* collected, the follow-up requests made, whether an exception is on its
\* way out, and the foreign emails emitted
Outcome(x, contacts, fetches, raised, foreign) ==
    [x |-> x, contacts |-> contacts, fetches |-> fetches, raised |-> raised,
     foreign |-> foreign]

\* The email policy of a card: same domain, or the cross-domain branch
AcceptEmail(x, negative_zone, card) ==
    \/ card.email = "own"
    \/ card.email = "foreign" /\ XdomAccept(x, negative_zone, card)

\* The email contact of a card, if the policy accepts it
CardEmails(x, negative_zone, card, selector) ==
    IF AcceptEmail(x, negative_zone, card)
    THEN << Contact("Acme", card.name, RoleOf(card), "email", EmailValue(card), selector) >>
    ELSE << >>

\* The foreign email of a card, if the policy accepts it, with its score and
\* strong signal
CardForeign(x, negative_zone, card, path) ==
    IF card.email = "foreign" /\ XdomAccept(x, negative_zone, card)
    THEN { Emitted(path, XdomScore(x, negative_zone, card), XdomStrong(x, card)) }
    ELSE {}

\* The phone contact of a card
CardPhones(card, selector) ==
    IF card.phone
    THEN << Contact("Acme", card.name, RoleOf(card), "phone", "15550100000", selector) >>
    ELSE << >>

\* _extract_person_contacts_static: re.match(r'^(19|20)\d{6,8}$', num), on the
\* digits of the model
DateLikeDigits(num) == num \in {"20240602", "2023101000"}

\* _extract_person_contacts_static: the phone of a card, from its tel anchor
\* or else from the first number of its text whose digits pass the checks
StaticPhones(card) ==
    IF card.phone THEN CardPhones(card, ".team a[href*='tel:']")
    ELSE IF /\ card.text_phone # ""
            /\ Len(DigitsOnly(card.text_phone)) \in 10..15
            /\ ~DateLikeDigits(DigitsOnly(card.text_phone))
    THEN << Contact("Acme", card.name, RoleOf(card), "phone", DigitsOnly(card.text_phone),
                    ".team :text-phone") >>
    ELSE << >>

\* The selector of the email of a card on the static path
StaticEmailSelector(card) ==
    IF card.from_mailto THEN ".team a[href*='mailto:']" ELSE ".team :text-email"

\* What a followed profile page gives the card: the first contact of that name
FollowedUp(name, bio) ==
    IF bio.raised THEN Outcome(bio.x, << >>, 1 + bio.fetches, FALSE, {})
    ELSE Outcome(bio.x, FirstByName(bio.contacts, name), 1 + bio.fetches, FALSE, bio.foreign)

\* The outcome of the cards so far, and of one more
Merged(acc, r) ==
    Outcome(r.x, acc.contacts \o r.contacts, acc.fetches + r.fetches, r.raised,
            acc.foreign \cup r.foreign)

RECURSIVE extract_from_static_html(_, _)
RECURSIVE StaticCards(_, _, _)

\* ContactExtractor._extract_person_contacts_static
_extract_person_contacts_static(x, page, card) ==
    IF card.name = "" THEN Outcome(x, << >>, 0, FALSE, {})
    ELSE IF AcceptEmail(x, page.negative_zone, card)
    THEN IF page.upper_scheme THEN Outcome(x, << >>, 0, TRUE, {})
         ELSE Outcome(x,
                      CardEmails(x, page.negative_zone, card, StaticEmailSelector(card))
                          \o StaticPhones(card),
                      0, FALSE, CardForeign(x, page.negative_zone, card, "static_card"))
    ELSE IF StaticPhones(card) # << >> /\ ~page.upper_scheme
    THEN Outcome(x, StaticPhones(card), 0, FALSE, {})
    ELSE IF x.d1_budget # None /\ x.d1_budget[1] > 0 /\ card.profile # ""
    THEN FollowedUp(card.name,
                    extract_from_static_html([x EXCEPT !.d1_budget = Some(@[1] - 1)],
                                             card.profile))
    ELSE Outcome(x, << >>, 0, FALSE, {})

\* The loop over the person cards of extract_from_static_html
StaticCards(page, cards, acc) ==
    IF cards = << >> \/ acc.raised THEN acc
    ELSE StaticCards(page, Tail(cards),
                     Merged(acc, _extract_person_contacts_static(acc.x, page, Head(cards))))

\* extract_from_static_html: the budget of a top-level call
BudgetReset(x) ==
    IF x.d1_budget = None THEN [x EXCEPT !.d1_budget = Some(D1_BUDGET)] ELSE x

\* extract_from_static_html: postprocessing and the reset on the way out,
\* both skipped by an exception
StaticReturn(local_reset, r) ==
    IF r.raised THEN Outcome(r.x, << >>, r.fetches, TRUE, {})
    ELSE Outcome(IF local_reset THEN [r.x EXCEPT !.d1_budget = None] ELSE r.x,
                 _postprocess_and_dedup(r.contacts), r.fetches, FALSE, r.foreign)

\* ContactExtractor.extract_from_static_html
extract_from_static_html(x, pid) ==
    StaticReturn(x.d1_budget = None,
                 StaticCards(StaticPage(pid), StaticPage(pid).cards,
                             Outcome(BudgetReset(_xdom_prepare_context_static(x, StaticPage(pid))),
                                     << >>, 0, FALSE, {})))

\* A mailto anchor of a rendered page, with the name of the nearest heading
Anchor(name, email) == [name |-> name, email |-> email]

\* The rendered pages of the model, by name: the mailto anchors found by the
\* fast sweep and the person cards of the fallback
RenderedPage(rid) ==
    CASE rid = "r_sweep" ->
           [negative_zone |-> FALSE, anchors |-> << Anchor("p1", "foreign") >>,
            cards |-> << LoneForeignCard("p1") >>]
      [] rid = "r_listing" ->
           [negative_zone |-> FALSE, anchors |-> << >>,
            cards |-> << BareCard("p1", "listing6"), BareCard("p2", "listing6") >>]
      [] rid = "r_cards" ->
           [negative_zone |-> FALSE, anchors |-> << Anchor("", "foreign") >>,
            cards |-> << ForeignCard("p1"), BareCard("p2", "bio") >>]

RenderedPages == {"r_sweep", "r_listing", "r_cards"}

\* The contact and the log entry of an anchor the fast sweep accepts
SweptAnchor(x, negative_zone, a) ==
    Outcome(x,
            << Contact("Acme", a.name, "Unknown", "email", EmailValue(a), "a[href*='mailto:']") >>,
            0, FALSE,
            IF a.email = "foreign"
            THEN { Emitted("fast_sweep", XdomScore(x, negative_zone, LoneForeignCard(a.name)),
                           XdomStrong(x, LoneForeignCard(a.name))) }
            ELSE {})

RECURSIVE FastSweep(_, _, _, _)
\* The fast sweep over the mailto anchors of extract_with_playwright: an
\* anchor with a name nearby passes the domain policy whatever its domain
FastSweep(x, negative_zone, anchors, acc) ==
    IF anchors = << >> THEN acc
    ELSE FastSweep(x, negative_zone, Tail(anchors),
                   IF Head(anchors).name = "" THEN acc
                   ELSE Merged(acc, SweptAnchor(x, negative_zone, Head(anchors))))

\* The card fallback of extract_with_playwright on one card
RenderedCard(x, negative_zone, card) ==
    IF AcceptEmail(x, negative_zone, card) \/ card.phone
    THEN Outcome(x,
                 CardEmails(x, negative_zone, card, "a[href*='mailto:']")
                     \o CardPhones(card, "a[href*='tel:']"),
                 0, FALSE, CardForeign(x, negative_zone, card, "card_fallback"))
    ELSE FollowedUp(card.name, extract_from_static_html(x, card.profile))

RECURSIVE RenderedCards(_, _, _, _)
\* The card fallback of extract_with_playwright, d1_budget being its local counter
RenderedCards(negative_zone, cards, d1_budget, acc) ==
    IF cards = << >> THEN acc
    ELSE IF Head(cards).name = ""
    THEN RenderedCards(negative_zone, Tail(cards), d1_budget, acc)
    ELSE IF \/ AcceptEmail(acc.x, negative_zone, Head(cards))
            \/ Head(cards).phone
            \/ (d1_budget > 0 /\ Head(cards).profile # "")
    THEN RenderedCards(negative_zone, Tail(cards),
                       IF AcceptEmail(acc.x, negative_zone, Head(cards)) \/ Head(cards).phone
                       THEN d1_budget ELSE d1_budget - 1,
                       Merged(acc, RenderedCard(acc.x, negative_zone, Head(cards))))
    ELSE RenderedCards(negative_zone, Tail(cards), d1_budget, acc)

\* extract_with_playwright: the fast sweep's contacts if it found any, else
\* the cards'; every exception is swallowed
RenderedReturn(page, sweep) ==
    IF sweep.contacts # << >> THEN sweep
    ELSE RenderedCards(page.negative_zone, page.cards, D1_BUDGET, sweep)

\* extract_with_playwright: return self._postprocess_and_dedup(out)
Postprocessed(r) == Outcome(r.x, _postprocess_and_dedup(r.contacts), r.fetches, FALSE, r.foreign)

\* ContactExtractor.extract_with_playwright
extract_with_playwright(x, rid) ==
    Postprocessed(RenderedReturn(RenderedPage(rid),
                                 FastSweep(x, RenderedPage(rid).negative_zone,
                                           RenderedPage(rid).anchors,
                                           Outcome(x, << >>, 0, FALSE, {}))))

\* ------------------------------------------------------------ export.py
\* Contact as the export layer reads it: the record, the selector and the
\* source URL of its evidence, and the time of capture
ExportContact(company, person, role, type, value, selector, source_url, captured_at) ==
    [company |-> company, person_name |-> person, role_title |-> role,
     contact_type |-> type, contact_value |-> value, selector |-> selector,
     source_url |-> source_url, verbatim_quote |-> value, captured_at |-> captured_at]

\* normalize_url_for_report on the URLs of the model
normalize_url_for_report(u) ==
    CASE u = "https://www.acme.com/team/" -> "https://acme.com/team"
      [] u = "https://acme.com/team?x=1" -> "https://acme.com/team"
      [] OTHER -> u

\* normalize_person_name on the names of the model
normalize_person_name(s) ==
    CASE s = "Ann Lee" -> "ann lee"
      [] s = "Ann  Lee." -> "ann lee"
      [] s = "Lee, Ann" -> "lee ann"
      [] OTHER -> StripLower(s)

\* _norm_key
_norm_key(company, person_name, contact_type, contact_value) ==
    << StripLower(company), normalize_person_name(person_name), contact_type,
       IF contact_type = "email" THEN StripLower(contact_value)
       ELSE IF contact_type = "phone" THEN DigitsOnly(contact_value)
       ELSE StripLower(contact_value) >>

KeyOf(c) == _norm_key(c.company, c.person_name, c.contact_type, c.contact_value)

\* _is_semantic_url on the URLs of the model
_is_semantic_url(u) ==
    IF u \in {"https://acme.com/team", "https://www.acme.com/team/",
              "https://acme.com/team?x=1"}
    THEN 1 ELSE 0

\* _is_anchor_selector
_is_anchor_selector(sel, want) == IF Contains(sel, want) THEN 1 ELSE 0

\* _is_toll_free on the numbers of the model
_is_toll_free(num) == IF num = "800-555-0100" THEN 0 ELSE 1

\* _quality_tuple without its first component
quality_without_anchor(c) ==
    << 0,
       _is_semantic_url(c.source_url),
       IF c.role_title # "" /\ StripLower(c.role_title) # "unknown" THEN 1 ELSE 0,
       0 - Len(normalize_url_for_report(c.source_url)),
       c.captured_at >>

\* _quality_tuple
_quality_tuple(c) ==
    << IF Contains(c.selector, "a[href*='mailto:']") \/ Contains(c.selector, "a[href*='tel:']")
       THEN 1 ELSE 0,
       _is_semantic_url(c.source_url),
       IF c.role_title # "" /\ StripLower(c.role_title) # "unknown" THEN 1 ELSE 0,
       0 - Len(normalize_url_for_report(c.source_url)),
       c.captured_at >>

RECURSIVE DistinctInOrder(_, _)
\* The keys of a dict filled in this order
DistinctInOrder(keys, acc) ==
    IF keys = << >> THEN acc
    ELSE DistinctInOrder(Tail(keys),
             IF \E i \in 1..Len(acc) : acc[i] = Head(keys) THEN acc
             ELSE Append(acc, Head(keys)))

\* The candidate a loop "if best is None or score > best_score: best = c"
\* ends with: the first one whose score no other exceeds
\* (score[i] being the score of cands[i])
FirstBest(cands, score) ==
    IF cands = << >> THEN None
    ELSE LET i == CHOOSE i \in 1..Len(cands) :
                     /\ \A j \in 1..Len(cands) : ~LexGreater(score[j], score[i])
                     /\ \A j \in 1..(i - 1) : LexGreater(score[i], score[j])
         IN  << cands[i] >>

\* dedupe_contacts_for_export
dedupe_contacts_for_export(contacts) ==
    LET keys == DistinctInOrder([i \in 1..Len(contacts) |-> KeyOf(contacts[i])], << >>)
    IN  [k \in 1..Len(keys) |->
            LET same == SelectSeq(contacts, LAMBDA c : KeyOf(c) = keys[k])
            IN  FirstBest(same, [i \in 1..Len(same) |-> _quality_tuple(same[i])])[1]]

\* A filter that lets every name through
NoStoplist(person_name) == FALSE

\* consolidate_per_person: NON_PERSON_PHRASES, on the names of the model
HasNonPersonPhrase(person_name) ==
    StripLower(person_name) \in {"support", "contact us", "mailing address"}

\* consolidate_per_person: the grouping key
PersonKey(c) == << StripLower(c.company), normalize_person_name(c.person_name) >>

\* consolidate_per_person: _local_matches_name(local, _name_tokens_latin(name)),
\* on the names and the emails of the model
_local_matches_name(email, person_disp) ==
    IF normalize_person_name(person_disp) = "ann lee"
       /\ StripLower(email) \in {"ann@acme.com", "a.lee@acme.com"}
    THEN 1 ELSE 0

\* consolidate_per_person: _looks_like_date_number, on the digits of the model
_looks_like_date_number(digits) == digits \in {"2023101000", "20231010"}

\* consolidate_per_person: the digits of the phone of a row, read from the
\* verbatim quote of an anchor when that gives a valid number, and without
\* the leading 1 of an 11-digit number
out_phone(phone_best) ==
    IF phone_best = None THEN ""
    ELSE LET digits_from_verb == DigitsOnly(phone_best[1].verbatim_quote)
             candidate ==
                 IF /\ _is_anchor_selector(phone_best[1].selector, "a[href*='tel:']") = 1
                    /\ Len(digits_from_verb) \in 10..15
                    /\ ~_looks_like_date_number(digits_from_verb)
                 THEN digits_from_verb
                 ELSE DigitsOnly(phone_best[1].contact_value)
         IN  IF candidate = "15550100000" THEN "5550100000" ELSE candidate

\* _best_role_for_person
_best_role_for_person(clist) ==
    LET best == FirstBest(clist, [i \in 1..Len(clist) |->
                    << IF clist[i].role_title # ""
                          /\ StripLower(clist[i].role_title) # "unknown"
                       THEN 1 ELSE 0,
                       Len(clist[i].role_title) >>])
    IN  IF best = None \/ best[1].role_title = "" THEN "Unknown" ELSE best[1].role_title

\* consolidate_per_person: the score of an email candidate
EmailScore(c, person_disp) ==
    << _is_anchor_selector(c.selector, "a[href*='mailto:']"),
       _is_semantic_url(c.source_url),
       _local_matches_name(c.contact_value, person_disp),
       c.captured_at >>

\* consolidate_per_person: _score_phone
_score_phone(c) ==
    << _is_anchor_selector(c.selector, "a[href*='tel:']"),
       _is_semantic_url(c.source_url),
       _is_toll_free(c.contact_value),
       c.captured_at >>

\* consolidate_per_person: the score of a vCard candidate
VcardScore(c) == << _is_semantic_url(c.source_url), c.captured_at >>

\* consolidate_per_person: the row of one person
PersonRow(clist) ==
    LET person_disp == clist[1].person_name
        emails == SelectSeq(clist, LAMBDA c : c.contact_type = "email")
        email_best ==
            FirstBest(emails, [i \in 1..Len(emails) |-> EmailScore(emails[i], person_disp)])
        phones == SelectSeq(clist, LAMBDA c : c.contact_type = "phone")
        phone_candidates_anchor ==
            SelectSeq(phones, LAMBDA c : _is_anchor_selector(c.selector, "a[href*='tel:']") = 1)
        valid_texts ==
            SelectSeq(phones, LAMBDA c :
                /\ _is_anchor_selector(c.selector, "a[href*='tel:']") = 0
                /\ Len(DigitsOnly(c.contact_value)) \in 10..15
                /\ ~_looks_like_date_number(DigitsOnly(c.contact_value)))
        phone_cands == IF phone_candidates_anchor # << >> THEN phone_candidates_anchor
                       ELSE valid_texts
        phone_best ==
            FirstBest(phone_cands, [i \in 1..Len(phone_cands) |-> _score_phone(phone_cands[i])])
        vcards == SelectSeq(clist, LAMBDA c :
                      c.contact_type = "link" /\ c.contact_value = "https://acme.com/ann.vcf")
        vcard_best == FirstBest(vcards, [i \in 1..Len(vcards) |-> VcardScore(vcards[i])])
    IN  [company |-> clist[1].company,
         person_name |-> person_disp,
         role_title |-> _best_role_for_person(clist),
         email |-> IF email_best = None THEN "" ELSE email_best[1].contact_value,
         phone |-> out_phone(phone_best),
         vcard |-> IF vcard_best = None THEN "" ELSE vcard_best[1].contact_value,
         source_url_email |-> IF email_best = None THEN ""
                              ELSE normalize_url_for_report(email_best[1].source_url),
         source_url_phone |-> IF phone_best = None THEN ""
                              ELSE normalize_url_for_report(phone_best[1].source_url),
         source_url_vcard |-> IF vcard_best = None THEN ""
                              ELSE normalize_url_for_report(vcard_best[1].source_url)]

\* consolidate_per_person
consolidate_per_person(contacts) ==
    LET filtered == SelectSeq(contacts, LAMBDA c : ~HasNonPersonPhrase(c.person_name))
        keys == DistinctInOrder([i \in 1..Len(filtered) |-> PersonKey(filtered[i])], << >>)
    IN  [k \in 1..Len(keys) |->
            PersonRow(SelectSeq(filtered, LAMBDA c : PersonKey(c) = keys[k]))]

\* The contacts of the model: a base record found in a mailto anchor of the
\* team page, and records that differ from it in one respect
BaseContact ==
    ExportContact("Acme", "Ann Lee", "CEO", "email", "ann@acme.com",
                  ".team a[href*='mailto:']", "https://acme.com/team", 1)

ExportContacts ==
    { BaseContact,
      [BaseContact EXCEPT !.selector = ".team :text-email", !.captured_at = 2],
      [BaseContact EXCEPT !.source_url = "https://acme.com/a"],
      [BaseContact EXCEPT !.role_title = "Unknown"],
      [BaseContact EXCEPT !.captured_at = 2],
      [BaseContact EXCEPT !.company = "ACME", !.person_name = "Ann  Lee.",
                          !.contact_value = "Ann@Acme.com",
                          !.source_url = "https://www.acme.com/team/"],
      [BaseContact EXCEPT !.contact_value = "a.lee@acme.com"],
      [BaseContact EXCEPT !.contact_type = "phone", !.contact_value = "+1 (555) 010-0000",
                          !.selector = ".team a[href*='tel:']",
                          !.verbatim_quote = "tel:+1 (555) 010-0000"],
      [BaseContact EXCEPT !.contact_type = "phone", !.contact_value = "5550100",
                          !.selector = ".team a[href*='tel:']",
                          !.verbatim_quote = "555-0100"],
      [BaseContact EXCEPT !.contact_type = "phone", !.contact_value = "2023101000",
                          !.selector = ".team :text-phone",
                          !.verbatim_quote = "Oct 10, 2023 10:00"],
      [BaseContact EXCEPT !.company = "Acme Inc"],
      [BaseContact EXCEPT !.company = "Acme  Inc"],
      [BaseContact EXCEPT !.person_name = "Mailing Address", !.role_title = "Office",
                          !.contact_value = "info@acme.com"],
      [BaseContact EXCEPT !.contact_type = "phone", !.contact_value = "800-555-0100",
                          !.selector = ".team :text-phone", !.captured_at = 2],
      [BaseContact EXCEPT !.contact_type = "link", !.role_title = "Unknown",
                          !.contact_value = "https://acme.com/ann.vcf",
                          !.selector = ".team a[href$='.vcf']"] }

\* No top-level extraction has been made
NoExtraction ==
    [op |-> "none", page |-> "", before |-> FreshExtractor, contacts |-> << >>,
     fetches |-> 0, raised |-> FALSE, foreign |-> {}, budget |-> 0, n |-> 0]

\* No function is being run on its own
NoDecisionIn == [fetch |-> FetchRaises, selector_hits |-> 0]

DecideIdle ==
    /\ decision_in = NoDecisionIn
    /\ decision_out = None

ExtractIdle ==
    /\ extractor = FreshExtractor
    /\ extraction = NoExtraction

ExportIdle ==
    /\ export_in = << >>
    /\ export_kept = None
    /\ export_rows = None

PostIdle ==
    /\ collected = << >>
    /\ returned = None

LibIdle ==
    /\ DecideIdle
    /\ ExtractIdle
    /\ ExportIdle
    /\ PostIdle
    /\ PostIdle

\* ------------------------------------------------------- sequential runs
Init ==
    /\ domain_stats = [d \in Domains |-> ZeroStats]
    /\ per_domain = [d \in Domains |-> 0]
    /\ global_used = 0
    /\ \E c \in Configs :
          enable_headless = c[1] /\ domain_cap = c[2] /\ global_cap = c[3]
    /\ call = NoCall
    /\ pc = [t \in Threads |-> "idle"]
    /\ loc = [t \in Threads |-> NoLocals]
    /\ LibIdle

\* The counters and the call record an ingest() call leaves
Commit(run) ==
    /\ domain_stats' = run.stats
    /\ per_domain' = run.pd
    /\ global_used' = run.g
    /\ call' = run.call

\* pre is the call up to the rendered stage, whose inputs are read only by a
\* call that reaches it
IngestFrom(url, fr, pre) ==
    \E rd \in (IF pre.call.headless_started THEN RenderOutcomes ELSE {NoRender}) :
        Commit(AfterRender(pre, url, fr, rd))

TotalStatic == domain_stats["a.com"].static + domain_stats["b.com"].static

\* One ingest(url) call, start to return
Ingest ==
    /\ TotalStatic < MaxFetches
    /\ \E url \in Urls :
         \E fr \in FetchInputs(url) :
           \E ex \in ExtractInputs(url, fr) :
             IngestFrom(url, fr,
                        BeforeRender(url, fr, ex, enable_headless, domain_cap, global_cap,
                                     domain_stats, per_domain, global_used))
    /\ UNCHANGED << enable_headless, domain_cap, global_cap, pc, loc >>
    /\ UNCHANGED lib_vars

Next == Ingest

Spec == Init /\ [][Next]_vars

\* ------------------------------------------------------- concurrent runs
\* Two threads call ingest() on one pipeline.  Nothing in ingest.py locks the
\* tracker or the budget, so the threads interleave between the statements
\* that read and write them: can_use_headless (line 296), can_spend (308),
\* record_fetch (324) and the two statements of spend (91, 92).
ConcUrls == {u \in Urls : u.parses /\ u.path = "/team"}

ConcFetches ==
    { FetchBlocked,
      FetchResponse(200, Some("application/json"), 1000, NoHtml("none")),
      FetchResponse(200, Some("text/html"), 8000,
                    Page({"team", "people"}, {}, {}, TRUE, 3, 8)) }

ConcRenders == {rd \in RenderOutcomes : rd.dom = "list"}

Returned(t, c) ==
    /\ pc' = [pc EXCEPT ![t] = "idle"]
    /\ loc' = [loc EXCEPT ![t].call = c]
    /\ call' = c

\* a is the call up to the guardrails
StartFrom(t, fr, a) ==
    /\ domain_stats' = a.stats
    /\ loc' = [loc EXCEPT ![t] = [call |-> a.call, fr |-> fr, st |-> a.st,
                                 n |-> loc[t].n + 1]]
    /\ pc' = [pc EXCEPT ![t] = IF a.pending THEN "gate_pct" ELSE "idle"]
    /\ call' = IF a.pending THEN call ELSE a.call

\* lines 160-293: the static fetch, its record, the decision, step 3
T_Start(t) ==
    /\ pc[t] = "idle"
    /\ loc[t].n < MaxThreadCalls
    /\ \E url \in ConcUrls :
         \E fr \in ConcFetches :
           \E ex \in ExtractInputs(url, fr) :
             StartFrom(t, fr, BeforeGates(url, fr, ex, enable_headless, domain_stats))
    /\ UNCHANGED << per_domain, global_used, enable_headless, domain_cap, global_cap >>
    /\ UNCHANGED lib_vars

\* line 296: if not self.domain_tracker.can_use_headless(domain)
T_GatePct(t) ==
    /\ pc[t] = "gate_pct"
    /\ LET c == loc[t].call
           ok == can_use_headless(domain_stats, _extract_domain(c.url))
       IN  IF ok
           THEN /\ pc' = [pc EXCEPT ![t] = "gate_hard"]
                /\ loc' = [loc EXCEPT ![t].call.gate_pct = Some(TRUE)]
                /\ call' = call
           ELSE Returned(t, [c EXCEPT !.gate_pct = Some(FALSE),
                                      !.result = Some(QuotaExceeded(c.url, loc[t].fr, loc[t].st))])
    /\ UNCHANGED << domain_stats, per_domain, global_used, enable_headless, domain_cap, global_cap >>
    /\ UNCHANGED lib_vars

\* line 308: if not self.headless_budget.can_spend(domain)
T_GateHard(t) ==
    /\ pc[t] = "gate_hard"
    /\ LET c == loc[t].call
           ok == can_spend(per_domain, global_used, domain_cap, global_cap, _extract_domain(c.url))
       IN  IF ok
           THEN /\ pc' = [pc EXCEPT ![t] = "record"]
                /\ loc' = [loc EXCEPT ![t].call.gate_hard = Some(TRUE)]
                /\ call' = call
           ELSE Returned(t, [c EXCEPT !.gate_hard = Some(FALSE),
                                      !.result = Some(BudgetExhausted(c.url, loc[t].fr, loc[t].st))])
    /\ UNCHANGED << domain_stats, per_domain, global_used, enable_headless, domain_cap, global_cap >>
    /\ UNCHANGED lib_vars

\* line 324: self.domain_tracker.record_fetch(domain, "playwright")
T_Record(t) ==
    /\ pc[t] = "record"
    /\ domain_stats' = record_fetch(domain_stats, _extract_domain(loc[t].call.url), "playwright")
    /\ pc' = [pc EXCEPT ![t] = "spend_global"]
    /\ loc' = [loc EXCEPT ![t].call.headless_started = TRUE]
    /\ UNCHANGED << per_domain, global_used, enable_headless, domain_cap, global_cap, call >>
    /\ UNCHANGED lib_vars

\* line 91: self._global_used += 1
T_SpendGlobal(t) ==
    /\ pc[t] = "spend_global"
    /\ global_used' = spend_global(global_used)
    /\ pc' = [pc EXCEPT ![t] = "spend_domain"]
    /\ UNCHANGED << domain_stats, per_domain, enable_headless, domain_cap, global_cap, call, loc >>
    /\ UNCHANGED lib_vars

\* line 92: self._per_domain[domain] = self._per_domain.get(domain, 0) + 1
T_SpendDomain(t) ==
    /\ pc[t] = "spend_domain"
    /\ per_domain' = spend_domain(per_domain, _extract_domain(loc[t].call.url))
    /\ pc' = [pc EXCEPT ![t] = "render"]
    /\ UNCHANGED << domain_stats, global_used, enable_headless, domain_cap, global_cap, call, loc >>
    /\ UNCHANGED lib_vars

\* lines 327-413: the rendered stage and the return
T_Render(t) ==
    /\ pc[t] = "render"
    /\ \E rd \in ConcRenders :
         LET c == loc[t].call
         IN  Returned(t, [c EXCEPT !.render = rd.dom, !.pw_error = rd.pw_error,
                                   !.result = Some(RenderStage(c.url, loc[t].fr, loc[t].st, rd))])
    /\ UNCHANGED << domain_stats, per_domain, global_used, enable_headless, domain_cap, global_cap >>
    /\ UNCHANGED lib_vars

NextConc ==
    \E t \in Threads :
        \/ T_Start(t)
        \/ T_GatePct(t)
        \/ T_GateHard(t)
        \/ T_Record(t)
        \/ T_SpendGlobal(t)
        \/ T_SpendDomain(t)
        \/ T_Render(t)

SpecConc == Init /\ [][NextConc]_vars

\* ------------------------------------------- decide_escalation on its own
\* The pipeline object while a function is run on its own
IngestIdle ==
    /\ domain_stats = [d \in Domains |-> ZeroStats]
    /\ per_domain = [d \in Domains |-> 0]
    /\ global_used = 0
    /\ enable_headless = TRUE /\ domain_cap = 2 /\ global_cap = 10
    /\ call = NoCall
    /\ pc = [t \in Threads |-> "idle"]
    /\ loc = [t \in Threads |-> NoLocals]

\* FetchResult.mime is Optional[str]: absent Content-Type, text/html, others
DecideMimes == {None, Some("text/html"), Some("application/json"), Some("application/pdf")}

\* content_length on either side of the 5 KiB limit
DecideLengths == {1000, ThinLimit}

DecideHtmls ==
    { NoHtml("none"),
      Page({"team", "people"}, {}, {}, TRUE, 3, 8),
      Page({"team"}, {}, {"ng-app", "data-cfemail"}, TRUE, 0, 0),
      Page({"team"}, {"__cf_chl_"}, {"data-cfemail"}, FALSE, 2, 0) }

DecideInputs ==
    { [fetch |-> FetchResponse(200, m, n, h), selector_hits |-> k] :
        m \in DecideMimes, n \in DecideLengths, h \in DecideHtmls,
        k \in 0..Len(target_terms) }

InitDecide ==
    /\ IngestIdle
    /\ ExtractIdle
    /\ ExportIdle
    /\ PostIdle
    /\ decision_in \in DecideInputs
    /\ decision_out = None

\* decide_escalation(fetch, selector_hits)
Decide ==
    /\ decision_out = None
    /\ decision_out' = Some(decide_escalation(decision_in.fetch, decision_in.selector_hits))
    /\ UNCHANGED << decision_in, ingest_vars, extract_vars, export_vars, post_vars >>

SpecDecide == InitDecide /\ [][Decide]_vars

\* ------------------------------------------- the extractor of one pipeline
\* Top-level extractions made in a run
MaxExtractions == 3

InitExtract ==
    /\ IngestIdle
    /\ DecideIdle
    /\ ExtractIdle
    /\ ExportIdle
    /\ PostIdle

\* The follow-up budget a top-level extraction has once past its reset
BudgetAtStart(op) ==
    IF op = "static" /\ extractor.d1_budget # None THEN extractor.d1_budget[1]
    ELSE D1_BUDGET

\* A top-level extraction returned r (or raised)
Extracted(op, pid, r) ==
    /\ extractor' = r.x
    /\ extraction' = [op |-> op, page |-> pid, before |-> extractor,
                      contacts |-> r.contacts, fetches |-> r.fetches, raised |-> r.raised,
                      foreign |-> r.foreign, budget |-> BudgetAtStart(op),
                      n |-> extraction.n + 1]
    /\ UNCHANGED << ingest_vars, decision_in, decision_out, export_vars, post_vars >>

\* ingest: self.contact_extractor.extract_from_static_html(static_result.html, url)
ExtractStatic ==
    \E pid \in StaticPages :
        /\ extraction.n < MaxExtractions
        /\ Extracted("static", pid, extract_from_static_html(extractor, pid))

\* ingest: self.contact_extractor.extract_with_playwright(url)
ExtractRendered ==
    \E rid \in RenderedPages :
        /\ extraction.n < MaxExtractions
        /\ Extracted("rendered", rid, extract_with_playwright(extractor, rid))

NextExtract == ExtractStatic \/ ExtractRendered

SpecExtract == InitExtract /\ [][NextExtract]_vars

\* --------------------------------------------------- the export of one run
\* Contacts in the raw list of a run
MaxContacts == 3

\* The lists of at most MaxContacts different contacts
ContactLists ==
    { l \in UNION { [1..n -> ExportContacts] : n \in 1..MaxContacts } :
        \A i, j \in 1..Len(l) : i # j => l[i] # l[j] }

InitExport ==
    /\ IngestIdle
    /\ DecideIdle
    /\ ExtractIdle
    /\ export_in \in ContactLists
    /\ export_kept = None
    /\ export_rows = None
    /\ PostIdle

\* run.py: deduped = dedupe_contacts_for_export(contacts_for_export)
Dedupe ==
    /\ export_kept = None
    /\ export_kept' = Some(dedupe_contacts_for_export(export_in))
    /\ UNCHANGED << export_in, export_rows, ingest_vars, decision_in, decision_out,
                    extract_vars, post_vars >>

\* run.py: consolidated = consolidate_per_person(deduped)
Consolidate ==
    /\ export_kept # None
    /\ export_rows = None
    /\ export_rows' = Some(consolidate_per_person(export_kept[1]))
    /\ UNCHANGED << export_in, export_kept, ingest_vars, decision_in, decision_out,
                    extract_vars, post_vars >>

NextExport == Dedupe \/ Consolidate

SpecExport == InitExport /\ [][NextExport]_vars

\* ------------------------------------------ _postprocess_and_dedup on its own
\* Contacts an extraction collected before the postprocessing
MaxCollected == 3

\* The contacts of the model: found in a mailto anchor, in the text of the
\* card, with and without a role, of two persons
AnchorEmail == Contact("Acme", "Ann Lee", "CEO", "email", "ann@acme.com", ".team a[href*='mailto:']")

CollectedContacts ==
    { AnchorEmail,
      [AnchorEmail EXCEPT !.selector = ".team :text-email"],
      [AnchorEmail EXCEPT !.role_title = "Unknown", !.contact_value = "a.lee@acme.com"],
      [AnchorEmail EXCEPT !.company = "ACME", !.contact_value = "Ann@Acme.com",
                          !.selector = ".team :text-email"],
      [AnchorEmail EXCEPT !.contact_type = "phone", !.contact_value = "1.555.010.0000",
                          !.role_title = "Unknown", !.selector = ".team a[href*='tel:']"],
      [AnchorEmail EXCEPT !.contact_type = "phone", !.contact_value = "800-555-0100",
                          !.selector = ".team :text-phone"],
      [AnchorEmail EXCEPT !.contact_type = "link", !.contact_value = "https://acme.com/ann.vcf",
                          !.selector = ".team a[href$='.vcf']"],
      [AnchorEmail EXCEPT !.person_name = "Bob Ray", !.contact_value = "bob@acme.com"] }

CollectedLists ==
    { l \in UNION { [1..n -> CollectedContacts] : n \in 1..MaxCollected } :
        \A i, j \in 1..Len(l) : i # j => l[i] # l[j] }

InitPostprocess ==
    /\ IngestIdle
    /\ DecideIdle
    /\ ExtractIdle
    /\ ExportIdle
    /\ collected \in CollectedLists
    /\ returned = None

\* extract_from_static_html: contacts = self._postprocess_and_dedup(contacts)
Postprocess ==
    /\ returned = None
    /\ returned' = Some(_postprocess_and_dedup(collected))
    /\ UNCHANGED << collected, ingest_vars, decision_in, decision_out, extract_vars,
                    export_vars >>

SpecPostprocess == InitPostprocess /\ [][Postprocess]_vars

\* ------------------------------------------------------------------ claims
HeadlessTotal == domain_stats["a.com"].headless + domain_stats["b.com"].headless

\* C1: in a run of sequential ingest calls the hard headless budget is never
\* exceeded: for every domain per_domain_used <= domain_cap, and
\* global_used <= global_cap, so at most domain_cap calls per domain and
\* global_cap calls overall have reached the headless stage.
C1_HardBudgetNeverExceeded ==
    /\ \A d \in Domains : per_domain[d] <= domain_cap
    /\ \A d \in Domains : domain_stats[d].headless <= domain_cap
    /\ global_used <= global_cap
    /\ HeadlessTotal <= global_cap

\* A run that used up a domain's budget and then had a call refused by can_spend
C1_Witness ==
    /\ call.done
    /\ call.gate_hard = Some(FALSE)
    /\ per_domain[call.url.netloc] = domain_cap
    /\ global_used < global_cap

\* C3: after any sequence of ingest calls, for every domain the share of
\* headless fetches among the recorded fetches, headless / (headless + static),
\* is at most max_headless_pct (0.2).
C3_HeadlessShareWithinPct ==
    \A d \in Domains :
        domain_stats[d].headless * MaxHeadlessPctDen
            <= MaxHeadlessPctNum * (domain_stats[d].headless + domain_stats[d].static)

\* C5: ingest(url) never raises: for every url and every failure of a sub-stage
\* (domain parsing included) the call returns exactly one IngestResult.
C5_IngestNeverRaises ==
    call.done => (~call.raised /\ call.result # None)

\* The headless counters: tracker headless counts, budget per-domain and global counts
HeadlessCounters ==
    << [d \in Domains |-> domain_stats[d].headless], per_domain, global_used >>

\* C2: when two ingest calls run concurrently on one pipeline, the gate check
\* and the following record_fetch / spend act as one atomic unit: in no
\* interleaving do both calls pass the check and leave per_domain_used above
\* domain_cap or global_used above global_cap.
C2_ConcurrentBudgetNeverExceeded ==
    /\ \A d \in Domains : per_domain[d] <= domain_cap
    /\ global_used <= global_cap

\* C4: a call reaches the headless stage (records a playwright fetch, spends
\* budget, invokes the rendered extractor) only if in that call, after its
\* static fetch was recorded, can_use_headless and can_spend both returned
\* true; if either returned false, no headless counter changes and no browser
\* work is started.
C4_Step ==
    LET c == call'
        d == c.url.netloc
        total == domain_stats[d].static + 1 + domain_stats[d].headless
        share_ok == domain_stats[d].headless * MaxHeadlessPctDen < MaxHeadlessPctNum * total
        budget_ok == global_used < global_cap /\ per_domain[d] < domain_cap
        reached == \/ HeadlessCounters' # HeadlessCounters
                   \/ c.headless_started
                   \/ c.render # "unused"
    IN  /\ reached =>
            /\ c.fetched # None
            /\ domain_stats'[d].static = domain_stats[d].static + 1
            /\ c.gate_pct = Some(TRUE) /\ share_ok
            /\ c.gate_hard = Some(TRUE) /\ budget_ok
            /\ domain_stats'[d].headless = domain_stats[d].headless + 1
            /\ per_domain'[d] = per_domain[d] + 1
            /\ global_used' = global_used + 1
            /\ \A e \in Domains \ {d} :
                   /\ domain_stats'[e] = domain_stats[e]
                   /\ per_domain'[e] = per_domain[e]
        /\ (c.gate_pct = Some(FALSE) \/ c.gate_hard = Some(FALSE)) =>
            /\ HeadlessCounters' = HeadlessCounters
            /\ ~c.headless_started
            /\ c.render = "unused"
        /\ c.gate_pct = Some(TRUE) => share_ok
        /\ c.gate_hard = Some(TRUE) => budget_ok

C4_HeadlessOnlyAfterBothGates == [][C4_Step]_vars

\* A call that passed both gates and ran the rendered stage
C4_Witness ==
    /\ call.done
    /\ call.gate_pct = Some(TRUE)
    /\ call.gate_hard = Some(TRUE)
    /\ call.headless_started
    /\ call.render = "list"
    /\ per_domain[call.url.netloc] > 0

\* The contacts the static extraction of the call computed (none if it was not run)
StaticResults(c) ==
    IF c.static_extracted # None THEN c.static_extracted ELSE Some(<< >>)

QuotaErrors(d) ==
    { Some("Headless quota exceeded for " \o d),
      Some("Headless budget exhausted (domain=" \o d \o ")") }

\* C6: when escalation is warranted but the percentage gate or the hard gate
\* fails, ingest returns method=static, success=false, an explicit
\* quota-exceeded error and a non-null contacts list holding the static
\* extraction results, and leaves every headless counter unchanged.
C6_Step ==
    LET c == call'
    IN  (c.gate_pct = Some(FALSE) \/ c.gate_hard = Some(FALSE)) =>
            /\ c.result # None
            /\ c.result[1].method = "static"
            /\ c.result[1].success = FALSE
            /\ c.result[1].error \in QuotaErrors(c.url.netloc)
            /\ c.result[1].contacts # None
            /\ c.result[1].contacts = StaticResults(c)
            /\ HeadlessCounters' = HeadlessCounters

C6_GateFailureKeepsStaticResults == [][C6_Step]_vars

\* C7: if the rendered-browser stage fails, ingest returns success=true with
\* method=static and the contacts static extraction had computed for the URL.
C7_RenderFailureFallsBackToStatic ==
    (call.done /\ call.headless_started /\ call.pw_error) =>
        /\ call.result # None
        /\ call.result[1].success = TRUE
        /\ call.result[1].method = "static"
        /\ call.result[1].contacts = StaticResults(call)

\* The rendered extraction of the call returned zero contacts: either
\* extract_with_playwright returned [] or, in the except branch, the
\* extraction of the rendered html did
RenderedZero(c) ==
    /\ c.headless_started
    /\ c.result # None
    /\ \/ c.render = "list" /\ c.result[1].method # "playwright"
       \/ c.result[1].method = "playwright" /\ c.result[1].contacts = Some(<< >>)

\* C8: if the rendered extraction returns zero contacts, ingest returns the
\* static extraction results with method=static and success=true instead of
\* an empty playwright result.
C8_ZeroYieldFallsBackToStatic ==
    (call.done /\ RenderedZero(call)) =>
        /\ call.result[1].success = TRUE
        /\ call.result[1].method = "static"
        /\ call.result[1].contacts = StaticResults(call)

\* C9: when the static fetch is blocked by robots.txt or returns status >= 400,
\* ingest returns at once with success=false, method=static, an error naming
\* the cause and zero contacts, and performs no extraction, no escalation
\* decision and no headless budget consumption.
C9_Step ==
    LET c == call'
        blocked == c.fetched[1][1]
        status == c.fetched[1][2]
    IN  (c.fetched # None /\ (blocked \/ status >= 400)) =>
            /\ c.result # None
            /\ c.result[1].success = FALSE
            /\ c.result[1].method = "static"
            /\ c.result[1].error =
                  (IF blocked THEN Some("Blocked by robots.txt")
                   ELSE Some("HTTP " \o ToString(status)))
            /\ c.result[1].contacts = Some(<< >>)
            /\ c.extract_calls = 0 /\ c.static_extracted = None
            /\ c.decided = None /\ c.result[1].escalation_decision = None
            /\ c.gate_pct = None /\ c.gate_hard = None
            /\ ~c.headless_started /\ c.render = "unused"
            /\ HeadlessCounters' = HeadlessCounters

C9_BlockedOrHttpFailureReturnsAtOnce == [][C9_Step]_vars

\* A call answered with HTTP 404 on a pipeline that had already spent budget
C9_Witness ==
    /\ call.done
    /\ call.fetched = Some(<< FALSE, 404 >>)
    /\ call.result # None
    /\ call.result[1].error = Some("HTTP 404")
    /\ global_used > 0

EscalateIffReasons(e) == e.escalate <=> (Len(e.reasons) > 0)

\* C10 as stated: every EscalationDecision, whether returned by
\* decide_escalation or carried in an IngestResult, has escalate = true
\* exactly when its reasons list is non-empty.
C10_EveryDecisionIffReasons ==
    call.done =>
        /\ call.decided # None => EscalateIffReasons(call.decided[1])
        /\ (call.result # None /\ call.result[1].escalation_decision # None)
              => EscalateIffReasons(call.result[1].escalation_decision[1])

\* C10 amended: a decision returned by decide_escalation has escalate = true
\* exactly when its reasons list is non-empty; a decision carried in an
\* IngestResult has escalate = true only when its reasons list is non-empty
\* (ingest may call the escalation off and keep the reasons).
C10_DecisionReasons ==
    call.done =>
        /\ call.decided # None => EscalateIffReasons(call.decided[1])
        /\ (call.result # None /\ call.result[1].escalation_decision # None)
              => (call.result[1].escalation_decision[1].escalate
                     => Len(call.result[1].escalation_decision[1].reasons) > 0)

\* A result whose decision was raised by the second-pass rule after
\* decide_escalation had found no reason
C10_Witness ==
    /\ call.done
    /\ call.decided = Some(EscalationDecision(FALSE, << >>))
    /\ call.result # None
    /\ call.result[1].escalation_decision # None
    /\ call.result[1].escalation_decision[1].escalate
    /\ call.result[1].escalation_decision[1].reasons = << "target_url_no_contacts" >>

\* The MIME-mismatch reason for a mime value (str(None) is "None")
MimeMismatchReason(mime) ==
    "mime!=text/html (" \o (IF mime = None THEN "None" ELSE mime[1]) \o ")"

\* C11: for every FetchResult whose mime differs from text/html (None
\* included) and every selector_hits, the reasons decide_escalation returns
\* include the MIME-mismatch reason and escalate is true.
C11_NonHtmlMimeEscalates ==
    (decision_out # None /\ decision_in.fetch.mime # Some("text/html")) =>
        /\ decision_out[1].escalate
        /\ \E i \in 1..Len(decision_out[1].reasons) :
               decision_out[1].reasons[i] = MimeMismatchReason(decision_in.fetch.mime)

RECURSIVE IsSubseq(_, _)
\* a occurs in b, in the same order
IsSubseq(a, b) ==
    IF a = << >> THEN TRUE
    ELSE IF b = << >> THEN FALSE
    ELSE IF Head(a) = Head(b) THEN IsSubseq(Tail(a), Tail(b))
    ELSE IsSubseq(a, Tail(b))

\* The call returned a result that carries an escalation decision
CarriesDecision(c) ==
    c.done /\ c.result # None /\ c.result[1].escalation_decision # None

\* C12: reasons are only added, never removed: the reasons of the decision
\* in the IngestResult contain, in the same order, every reason
\* decide_escalation returned for the static fetch, whatever the second-pass
\* rule, the JS-only soft rule and the non-target guard do to escalate.
C12_ReasonsNeverRemoved ==
    (CarriesDecision(call) /\ call.decided # None) =>
        IsSubseq(call.decided[1].reasons, call.result[1].escalation_decision[1].reasons)

\* A result whose escalation was called off after decide_escalation gave
\* two or more reasons
C12_Witness ==
    /\ CarriesDecision(call)
    /\ call.decided # None
    /\ call.decided[1].escalate
    /\ Len(call.decided[1].reasons) >= 2
    /\ ~call.result[1].escalation_decision[1].escalate

\* C13: the reason target_url_no_contacts is added only when the URL's path
\* matches the listing patterns, headless escalation is enabled, and the
\* static extraction attempt for that URL returned zero contacts.
C13_TargetReasonOnlyAfterEmptyExtraction ==
    (CarriesDecision(call)
        /\ \E i \in 1..Len(call.result[1].escalation_decision[1].reasons) :
              call.result[1].escalation_decision[1].reasons[i] = "target_url_no_contacts")
    => /\ call.url.path = "/team"
       /\ enable_headless
       /\ call.extract_calls = 1
       /\ call.static_extracted = Some(<< >>)

\* The contacts the last extraction would have returned on a new extractor
FreshContacts ==
    IF extraction.op = "static"
    THEN extract_from_static_html(FreshExtractor, extraction.page).contacts
    ELSE extract_with_playwright(FreshExtractor, extraction.page).contacts

AnchorSourced(c) == c.selector \in MailtoSelectors \cup TelSelectors

\* The quality tuple as the specification states it: anchor origin, semantic
\* URL path, known role, shorter canonical source URL, more recent capture
StatedQuality(c) ==
    << IF AnchorSourced(c) THEN 1 ELSE 0,
       IF normalize_url_for_report(c.source_url) = "https://acme.com/team" THEN 1 ELSE 0,
       IF c.role_title = "Unknown" THEN 0 ELSE 1,
       0 - Len(normalize_url_for_report(c.source_url)),
       c.captured_at >>

Reordered(l, f) == [i \in 1..Len(l) |-> l[f[i]]]

\* The records of a list, whatever their order
RecordsOf(l) == { l[i] : i \in 1..Len(l) }

\* What the rows select for each person
SelectionOf(rows) ==
    { [company |-> StripLower(rows[i].company),
       person |-> normalize_person_name(rows[i].person_name),
       email |-> rows[i].email, phone |-> rows[i].phone, vcard |-> rows[i].vcard] :
      i \in 1..Len(rows) }

\* C16: for every permutation of the raw contact list, dedupe_contacts_for_export
\* keeps the same record for each key and consolidate_per_person selects the
\* same email, phone and vCard for each person
C16_SameResultForEveryOrder ==
    export_rows # None =>
        \A f \in Permutations(1..Len(export_in)) :
            LET kept == dedupe_contacts_for_export(Reordered(export_in, f))
            IN  /\ RecordsOf(kept) = RecordsOf(export_kept[1])
                /\ SelectionOf(consolidate_per_person(kept)) = SelectionOf(export_rows[1])

\* C17: in every extraction path, a foreign-domain email is emitted only if
\* its score reaches the threshold and at least one strong signal is present
C17_ForeignEmailNeedsScoreAndStrongSignal ==
    \A e \in extraction.foreign : e.score >= XDOM_THRESHOLD /\ e.strong

\* C18: one top-level extraction makes at most 5 follow-up profile requests,
\* those of the followed pages included, and exactly 5 on the listing of 6
\* cards without email or phone
C18_AtMostFiveFollowUps ==
    extraction.op # "none" =>
        /\ extraction.fetches <= D1_BUDGET
        /\ extraction.page = "listing6" => extraction.fetches = D1_BUDGET

\* C19: every top-level extraction starts with the full follow-up budget,
\* whatever happened in the extractions before it
C19_FullBudgetAtEveryStart ==
    extraction.op # "none" => extraction.budget = D1_BUDGET

\* The normalized (company, person) pair of a contact
PairOf(c) == << StripLower(c.company), StripLower(c.person_name) >>

\* a is preferred to b: anchor-sourced before text-sourced, then known role
\* before Unknown
Preferred(a, b) ==
    \/ AnchorSourced(a) /\ ~AnchorSourced(b)
    \/ /\ AnchorSourced(a) = AnchorSourced(b)
       /\ a.role_title # "Unknown" /\ b.role_title = "Unknown"

\* C20: the list _postprocess_and_dedup returns holds at most one email and
\* at most one phone per normalized (company, person) pair, each of them one
\* of the collected records, and no collected record of the same pair and
\* type is preferred to the kept one (anchor before text, then known role
\* before Unknown)
C20_OneEmailOnePhonePerPerson ==
    returned # None =>
        LET out == returned[1]
        IN  \A k \in 1..Len(out) :
                out[k].contact_type \in {"email", "phone"} =>
                    /\ \A m \in 1..Len(out) :
                           (PairOf(out[m]) = PairOf(out[k])
                            /\ out[m].contact_type = out[k].contact_type) => m = k
                    /\ \E i \in 1..Len(collected) : collected[i] = out[k]
                    /\ \A i \in 1..Len(collected) :
                           (PairOf(collected[i]) = PairOf(out[k])
                            /\ collected[i].contact_type = out[k].contact_type)
                           => ~Preferred(collected[i], out[k])

C20_Witness ==
    /\ returned # None
    /\ Len(collected) = 3
    /\ Len(returned[1]) = 1
    /\ returned[1][1].contact_type = "email"
    /\ AnchorSourced(returned[1][1]) /\ returned[1][1].role_title = "Unknown"
    /\ \E i \in 1..Len(collected) :
           /\ ~AnchorSourced(collected[i]) /\ collected[i].role_title = "CEO"
           /\ collected[i].contact_value # returned[1][1].contact_value

\* A company name lower-cased and with its whitespace collapsed
CollapsedCompany(s) == IF s = "Acme  Inc" THEN "acme inc" ELSE StripLower(s)

\* The normalized (company, person) pair of a contact or of a row
NormalizedPair(c) == << CollapsedCompany(c.company), normalize_person_name(c.person_name) >>

\* C21: consolidate_per_person produces exactly one row per normalized
\* (company, person) pair: names that differ only in commas, periods or
\* spacing, and companies that differ only in case or whitespace, share a row
C21_OneRowPerNormalizedPair ==
    export_rows # None =>
        LET rows == export_rows[1]
            kept == export_kept[1]
        IN  /\ \A i, j \in 1..Len(rows) :
                   NormalizedPair(rows[i]) = NormalizedPair(rows[j]) => i = j
            /\ \A i \in 1..Len(kept) :
                   ~HasNonPersonPhrase(kept[i].person_name) =>
                       \E j \in 1..Len(rows) : NormalizedPair(rows[j]) = NormalizedPair(kept[i])

\* The contacts of the raw list that are phones of the person of a row
PhonesOf(row, l) ==
    { l[i] : i \in { i \in 1..Len(l) : /\ l[i].contact_type = "phone"
                                         /\ ~HasNonPersonPhrase(l[i].person_name)
                                         /\ PersonKey(l[i]) = PersonKey(row) } }

\* The digit-length and date-pattern validation of a phone
ValidPhoneDigits(d) == Len(d) \in 10..15 /\ ~_looks_like_date_number(d)

\* The digits a phone contact can put in a row
EmittedDigits(c) ==
    LET d == DigitsOnly(c.contact_value)
    IN  IF d = "15550100000" THEN "5550100000" ELSE d

\* C22: the phone of a row is the digits of one of the person's phones, of an
\* anchor-derived one whenever the person has one; a phone that fails the
\* 10-15 digit or the date-pattern validation is never emitted, and the field
\* is empty when the person has no valid phone
C22_PhoneIsBestValidCandidate ==
    export_rows # None =>
        \A i \in 1..Len(export_rows[1]) :
            LET row == export_rows[1][i]
                phones == PhonesOf(row, export_kept[1])
                anchors == { c \in phones : _is_anchor_selector(c.selector, "a[href*='tel:']") = 1 }
            IN  /\ row.phone # "" =>
                       \E c \in phones :
                           /\ row.phone = EmittedDigits(c)
                           /\ ValidPhoneDigits(DigitsOnly(c.contact_value))
                           /\ (anchors # {} => c \in anchors)
                /\ row.phone = "" =>
                       \A c \in phones : ~ValidPhoneDigits(DigitsOnly(c.contact_value))

\* The names of the model that match the non-person stoplist
StoplistNames == {"Mailing Address"}

\* C23: no row has a person name of the non-person stoplist, and a contact
\* with such a name gives no email, phone, vCard or role to any row
C23_NoRowForStoplistNames ==
    export_rows # None =>
        \A i \in 1..Len(export_rows[1]) :
            LET row == export_rows[1][i]
            IN  /\ row.person_name \notin StoplistNames
                /\ \A j \in 1..Len(export_kept[1]) :
                       LET c == export_kept[1][j]
                       IN  c.person_name \in StoplistNames =>
                               /\ c.contact_value \notin {row.email, row.phone, row.vcard}
                               /\ c.role_title # row.role_title

\* A stoplist-named contact was consolidated together with a person's contact
C23_Witness ==
    /\ export_rows # None
    /\ \E j \in 1..Len(export_kept[1]) : export_kept[1][j].person_name \in StoplistNames
    /\ Len(export_rows[1]) = 1
    /\ export_rows[1][1].email = "ann@acme.com"

\* The cards of the static pages
StaticCardsOfModel ==
    UNION { { StaticPage(pid).cards[i] : i \in 1..Len(StaticPage(pid).cards) } :
            pid \in StaticPages }

\* C24: a phone taken from free text (no tel: anchor) is a contact only if a
\* marker word stands near it, its digits number 10 to 15, and they do not
\* match the date-like pattern
C24_TextPhoneNeedsMarkerLengthAndNoDate ==
    \A i \in 1..Len(extraction.contacts) :
        LET c == extraction.contacts[i]
        IN  c.contact_type = "phone" /\ c.selector = ".team :text-phone" =>
                \E card \in StaticCardsOfModel :
                    /\ card.name = c.person_name
                    /\ DigitsOnly(card.text_phone) = c.contact_value
                    /\ card.phone_marker
                    /\ Len(c.contact_value) \in 10..15
                    /\ ~DateLikeDigits(c.contact_value)

\* No fetch recorded, or the headless share strictly below max_headless_pct
ShareBelowMax(static, headless) ==
    \/ static + headless = 0
    \/ headless * MaxHeadlessPctDen < MaxHeadlessPctNum * (static + headless)

\* The tracker's counts for the domain of the last call when its gate was asked
HeadlessAtGate ==
    domain_stats[_extract_domain(call.url)].headless - (IF call.headless_started THEN 1 ELSE 0)

\* C25: can_use_headless(domain) is true exactly when the domain has no
\* recorded fetch or its headless share is strictly below max_headless_pct,
\* for the tracker's counts after every call and for the answer the gate of
\* the call got; with 0.2, it is true after 4 static records and false after
\* one more headless record
C25_CanUseHeadlessIffShareBelowMax ==
    /\ \A d \in Domains :
           can_use_headless(domain_stats, d)
               <=> ShareBelowMax(domain_stats[d].static, domain_stats[d].headless)
    /\ call.gate_pct # None =>
           (call.gate_pct[1]
               <=> ShareBelowMax(domain_stats[_extract_domain(call.url)].static, HeadlessAtGate))
    /\ \A d \in Domains :
           /\ domain_stats[d] = [static |-> 4, headless |-> 0] => can_use_headless(domain_stats, d)
           /\ domain_stats[d] = [static |-> 4, headless |-> 1] => ~can_use_headless(domain_stats, d)

\* Four static records and one headless record: the share is exactly 20%
C25_Witness ==
    /\ domain_stats["a.com"] = [static |-> 4, headless |-> 1]
    /\ call.gate_pct = Some(TRUE)
    /\ ~can_use_headless(domain_stats, "a.com")

\* Every reason of the decision is a JS marker
JsOnly(esc) == \A i \in 1..Len(esc.reasons) : StartsWithJs(esc.reasons[i])

\* What ingest(url) does in the current state of the pipeline when the static
\* fetch returns fr and the static extraction returns the contacts cs
IngestOf(url, fr, cs) ==
    BeforeRender(url, fr, [raises |-> FALSE, contacts |-> cs], enable_headless,
                 domain_cap, global_cap, domain_stats, per_domain, global_used)

\* C26: when every escalation reason is a JS marker, the static response is
\* text/html, the static extraction yields at least one contact and selector
\* hits > 0, ingest returns method=static, success=true, escalate=false with
\* the static contacts, and changes no headless counter
C26_JsOnlyWithContactsStaysStatic ==
    \A url \in { u \in Urls : u.parses } :
        \A fr \in HtmlResponses :
            LET esc == decide_escalation(fr, _count_selector_hits(fr.html))
                cs == << "static:1" >>
                run == IngestOf(url, fr, cs)
            IN  (/\ esc.escalate
                 /\ JsOnly(esc)
                 /\ fr.mime = Some("text/html")
                 /\ _count_selector_hits(fr.html) > 0) =>
                    /\ run.call.result # None
                    /\ run.call.result[1].method = "static"
                    /\ run.call.result[1].success
                    /\ run.call.result[1].escalation_decision # None
                    /\ ~run.call.result[1].escalation_decision[1].escalate
                    /\ run.call.result[1].contacts = Some(cs)
                    /\ ~run.call.headless_started
                    /\ run.pd = per_domain
                    /\ run.g = global_used
                    /\ \A d \in Domains : run.stats[d].headless = domain_stats[d].headless

\* A call on a target URL of a pipeline that could still escalate, whose
\* reasons were JS markers only and whose static extraction found a contact
C26_Witness ==
    /\ call.done
    /\ _is_target_url(call.url)
    /\ enable_headless
    /\ call.decided # None
    /\ call.decided[1].escalate
    /\ JsOnly(call.decided[1])
    /\ call.static_extracted = Some(<< "static:1" >>)
    /\ call.result # None
    /\ call.result[1].method = "static"
    /\ call.result[1].contacts = Some(<< "static:1" >>)
    /\ ~call.result[1].escalation_decision[1].escalate
    /\ call.gate_pct = None

NonTargetPaths == {"/about"}

\* C28 as stated: for a URL whose path matches no target pattern the call
\* returns a result with method=static and no decision to escalate, and no
\* headless counter changes
C28_Stated ==
    LET c == call'
    IN  c.url.path \in NonTargetPaths =>
            /\ c.result # None
            /\ c.result[1].method = "static"
            /\ c.result[1].escalation_decision # None =>
                   ~c.result[1].escalation_decision[1].escalate
            /\ HeadlessCounters' = HeadlessCounters

C28_Step ==
    LET c == call'
    IN  c.url.path \in NonTargetPaths =>
            /\ HeadlessCounters' = HeadlessCounters
            /\ c.gate_pct = None /\ c.gate_hard = None
            /\ ~c.headless_started /\ c.render = "unused"
            /\ c.result # None
            /\ c.result[1].method \in {"static", "unknown"}
            /\ c.result[1].escalation_decision # None =>
                   /\ c.result[1].method = "static"
                   /\ c.result[1].success
                   /\ ~c.result[1].escalation_decision[1].escalate
                   /\ c.decided # None
                   /\ c.result[1].escalation_decision[1].reasons = c.decided[1].reasons

CountersAgree ==
    /\ \A d \in Domains : domain_stats[d].headless = per_domain[d]
    /\ global_used = per_domain["a.com"] + per_domain["b.com"]

\* A call adds one to the static count of its domain exactly when its static
\* fetch returned, and nothing to the static count of any other domain
C29_Step ==
    \A d \in Domains :
        domain_stats'[d].static =
            domain_stats[d].static
                + (IF call'.fetched # None /\ call'.url.netloc = d THEN 1 ELSE 0)

\* C29: after any sequence of sequential ingest calls the tracker's headless
\* count of each domain equals the budget's per-domain used count, global_used
\* equals the sum of the per-domain used counts, and the static count of a
\* domain is the number of calls for it whose static fetch returned
\* (robots-blocked and HTTP-failed fetches included)
C29_TrackerAndBudgetAgree == [][CountersAgree /\ CountersAgree' /\ C29_Step]_vars

\* Headless was used once for a domain, and the last call, counted as a static
\* fetch, was blocked by robots.txt
C29_Witness ==
    /\ call.done
    /\ call.fetched # None
    /\ call.fetched[1][1]
    /\ call.url.netloc = "a.com"
    /\ domain_stats["a.com"].static >= 2
    /\ domain_stats["a.com"].headless = 1
    /\ per_domain["a.com"] = 1
    /\ global_used = 1

\* HeadlessBudget.can_spend(d) in the current state
CanSpendNow(d) == can_spend(per_domain, global_used, domain_cap, global_cap, d)

\* C30: a call that starts the headless stage adds one to per_domain_used,
\* global_used and the headless count of its domain, also when the rendered
\* stage fails or yields nothing and the result is a static one; no counter
\* ever decreases, so a can_spend(domain) that is false stays false
C30_Step ==
    LET c == call'
        d == c.url.netloc
    IN  /\ c.headless_started =>
               /\ per_domain'[d] = per_domain[d] + 1
               /\ global_used' = global_used + 1
               /\ domain_stats'[d].headless = domain_stats[d].headless + 1
        /\ global_used' >= global_used
        /\ \A e \in Domains :
               /\ per_domain'[e] >= per_domain[e]
               /\ domain_stats'[e].headless >= domain_stats[e].headless
               /\ domain_stats'[e].static >= domain_stats[e].static
               /\ ~CanSpendNow(e) => ~CanSpendNow(e)'
        /\ domain_cap' = domain_cap /\ global_cap' = global_cap

C30_BudgetNeverGivenBack == [][C30_Step]_vars

\* The rendered stage yielded nothing, ingest fell back to a static result,
\* and the budget of the domain is used up
C30_Witness ==
    /\ call.done
    /\ call.headless_started
    /\ call.render = "list"
    /\ call.result # None
    /\ call.result[1].method = "static"
    /\ per_domain[call.url.netloc] = domain_cap
    /\ global_used >= 1
    /\ ~CanSpendNow(call.url.netloc)

====
